---- MODULE Spec2Model ----
(***************************************************************************)
(* next-limitr: the storage adapters (one increment-with-expiry counter    *)
(* over several backends) and the request pipeline built by withRateLimit. *)
(*                                                                         *)
(* Several specifications share the variables:                             *)
(*   SpecStore  one adapter instance driven by one caller, one operation   *)
(*              at a time (increment / decrement / reset, clock ticks);    *)
(*   SpecConc   one adapter instance, several callers whose increments     *)
(*              interleave at the adapter's await points;                  *)
(*   Spec       the handler returned by withRateLimit(options)(handler),   *)
(*              requests processed one after another;                      *)
(*   SpecConn   the life cycle of an adapter's backend connection;         *)
(*   SpecRoute  the selection of a per-route override;                     *)
(*   SpecMerge  the merge of option objects;                               *)
(*   SpecPool   the relational adapter's use of pooled connections;        *)
(*   SpecReply  the parsing of a backend's reply by each adapter;          *)
(*   SpecDdl    table creation by the drizzle adapter;                     *)
(*   SpecFlight several requests of one key in flight at once;             *)
(*   SpecDecr   decrements and increments of one cache key, interleaved;   *)
(*   SpecHeap   option resolution over objects that have identity;         *)
(*   SpecExtract the two reply normalisation helpers on one reply;         *)
(*   SpecKey    key derivation followed by one adapter operation.          *)
(* Time is in milliseconds, as Date.now().                                 *)
(***************************************************************************)
EXTENDS Integers, Sequences, FiniteSets, TLC

VARIABLES
    now,        \* the wall clock, Date.now()
    kind,       \* the adapter family in use
    windowMs,   \* the configured window
    store,      \* the backend's counters: key -> stored record
    last,       \* SpecStore: the last adapter operation and what it returned
    run,        \* SpecStore, SpecConc: key -> increments counted in the stored window
    proc,       \* SpecConc: caller -> position and locals of its increment
    opts,       \* Spec: the options given to withRateLimit
    req,        \* Spec: the request in flight (or the last one finished)
    served,     \* Spec: number of requests started so far
    seen,       \* Spec: key -> requests counted in the current window
    conn,       \* SpecConn: the adapter's backend connection and who owns it
    route       \* SpecRoute, SpecMerge: the inputs and result of option resolution

vars == <<now, kind, windowMs, store, last, run, proc, opts, req, served, seen, conn, route>>

----------------------------------------------------------------------------
(* Bounds of the model *)

MaxTime == 3000
MaxOps == 4
NProcs == 2

(* Program constants *)

\* Number.MAX_SAFE_INTEGER is 2^53 - 1; the model checker's integers are
\* 32 bits wide, so the sentinel is its largest value.  Only its being far
\* above every count matters.
MaxSafeInteger == 2147483647
\* milliseconds per second, the divisor of every reset computation
SecMs == 1000

Keys == {"k1", "k2"}
Windows == {1000, 1500}
TickSteps == {500, 1000}

\* Adapter families.  "redis" is the Lua-script adapter, "redisMulti" the
\* MULTI/EXEC one, "upstash" and "cloudflare" the two EdgeStorage kinds,
\* "drizzle" the Drizzle relational adapter.
Kinds == {"memory", "redis", "redisMulti", "mongodb", "postgresql",
          "drizzle", "upstash", "cloudflare"}
Relational == {"postgresql", "drizzle"}
ScriptKinds == {"redis", "upstash"}
\* Backends whose increment is one atomic backend operation.
AtomicKinds == Kinds \ {"cloudflare"}

----------------------------------------------------------------------------
(* Stored records and usage records *)

\* A key without TTL (Redis PTTL -1, a KV value put without expirationTtl).
NoTTL == -1

NoRec == [present |-> FALSE, count |-> 0, expireAt |-> 0]
Rec(c, e) == [present |-> TRUE, count |-> c, expireAt |-> e]
EmptyStore == [k \in Keys |-> NoRec]

Max(a, b) == IF a >= b THEN a ELSE b
FloorSec(ms) == ms \div SecMs
CeilSec(ms) == (ms + SecMs - 1) \div SecMs

\* RateLimitUsage as every adapter builds it: limit is the sentinel and
\* remaining is computed against it.
Usage(used, reset) ==
    [used |-> used, remaining |-> Max(MaxSafeInteger - used, 0),
     reset |-> reset, limit |-> MaxSafeInteger]

NoUsage == [used |-> 0, remaining |-> 0, reset |-> 0, limit |-> 0]


----------------------------------------------------------------------------
(* Backend replies.  A reply value is a number, a numeric string (Lua hands
   ARGV[1] back as a string, pg hands a BIGINT back as a string), a string
   that is no number, or nothing (null / undefined, a missing field).  None
   stands for a reply without content: no row, no document, an empty or
   null result array. *)

Num(v) == [t |-> "num", v |-> v]
Str(v) == [t |-> "str", v |-> v]
BadStr == [t |-> "bad", v |-> 0]
Nil == [t |-> "nil", v |-> 0]
None == [t |-> "none", v |-> 0]

Reply(c, x) == [c |-> c, x |-> x]
NoReply == Reply(Nil, Nil)

\* What increment does: it returns a usage record, or raises, or returns a
\* usage record whose used is NaN.
Ok(u) == [ok |-> TRUE, usage |-> u, nan |-> FALSE]
Raise == [ok |-> FALSE, usage |-> NoUsage, nan |-> FALSE]
OkNaN == [ok |-> TRUE, usage |-> NoUsage, nan |-> TRUE]

\* Number(x ?? 0), and Number(x || 0) on a value that is no number: 0 for
\* a missing value, the number a numeric string spells, NaN otherwise.
NumberOrZero(r) ==
    IF r.t = "nil" THEN [nan |-> FALSE, v |-> 0]
    ELSE IF r.t \in {"num", "str"} THEN [nan |-> FALSE, v |-> r.v]
    ELSE [nan |-> TRUE, v |-> 0]

\* Further reply shapes: the empty string, an array, and a wrapper object
\* (a non-array object), the last two with their elements or values in e.
EmptyStr == [t |-> "empty", v |-> 0]
Arr(e) == [t |-> "arr", v |-> 0, e |-> e]
Wrap(e) == [t |-> "obj", v |-> 0, e |-> e]

\* typeof x === "number", or a string for which Number.isFinite(Number(x))
\* holds: Number("") is 0.
ParsesFinite(x) == x.t \in {"num", "str", "empty"}

\* The index of the first element of e that is a number or parses to a
\* finite one, 0 when there is none.
FirstFinite(e) ==
    IF \E i \in 1 .. Len(e) : ParsesFinite(e[i])
    THEN CHOOSE i \in 1 .. Len(e) :
             ParsesFinite(e[i]) /\ \A j \in 1 .. i - 1 : ~ParsesFinite(e[j])
    ELSE 0

\* Number(String(reply)) is finite, for an array none of whose elements is
\* a number or numeric string: String([]) and String([null]) are "", which
\* Number() turns into 0; every other such array gives NaN.
StringOfArrayFinite(e) == Len(e) = 0 \/ (Len(e) = 1 /\ e[1].t = "nil")

\* RedisStorage.extractNumberFromReply: null/undefined raise; a number is
\* returned; a string goes through Number(); an array and then any object
\* are searched for their first number or numeric string; what is left goes
\* through Number(String(reply)) and raises when that is not finite.
ExtractNumberFromReply(r) ==
    IF r.t = "nil" THEN [ok |-> FALSE, v |-> 0]
    ELSE IF r.t = "num" THEN [ok |-> TRUE, v |-> r.v]
    ELSE IF r.t = "str" THEN [ok |-> TRUE, v |-> r.v]
    ELSE IF r.t = "empty" THEN [ok |-> TRUE, v |-> 0]
    ELSE IF r.t = "arr"
    THEN IF FirstFinite(r.e) > 0 THEN [ok |-> TRUE, v |-> r.e[FirstFinite(r.e)].v]
         ELSE [ok |-> StringOfArrayFinite(r.e), v |-> 0]
    ELSE IF r.t = "obj"
    THEN IF FirstFinite(r.e) > 0 THEN [ok |-> TRUE, v |-> r.e[FirstFinite(r.e)].v]
         ELSE [ok |-> FALSE, v |-> 0]
    ELSE [ok |-> FALSE, v |-> 0]

\* EdgeStorage.tryParseNumber: the number, or null.
TryParseNumber(x) ==
    IF ParsesFinite(x) THEN [ok |-> TRUE, v |-> x.v] ELSE [ok |-> FALSE, v |-> 0]

\* EdgeStorage.extractNumber: null/undefined raise; a number and a numeric
\* string are returned; a non-empty array is searched with tryParseNumber;
\* everything else, wrapper objects included, raises.
ExtractNumber(r) ==
    IF r.t = "nil" THEN [ok |-> FALSE, v |-> 0]
    ELSE IF r.t = "num" THEN [ok |-> TRUE, v |-> r.v]
    ELSE IF r.t = "str" THEN [ok |-> TRUE, v |-> r.v]
    ELSE IF r.t = "empty" THEN [ok |-> TRUE, v |-> 0]
    ELSE IF r.t = "arr" /\ FirstFinite(r.e) > 0
    THEN TryParseNumber(r.e[FirstFinite(r.e)])
    ELSE [ok |-> FALSE, v |-> 0]

----------------------------------------------------------------------------
(* MemoryStorage *)

\* A sweep that evicts nothing.
MemCleanupNone(m, t) == m

\* cleanup(): every entry whose deadline has passed is deleted.
MemCleanup(m, t) ==
    [k \in Keys |-> IF m[k].present /\ t >= m[k].expireAt THEN NoRec ELSE m[k]]

\* An increment that is lost: the old count is written back.
MemNextCountLost(record) == record.count

\* The count written by the increment branch: record.count += 1.
MemNextCount(record) == record.count + 1

\* increment(key, windowMs): no await inside, so it runs as one step.
MemIncrement(m, k, w, t) ==
    LET m1 == MemCleanup(m, t)
        record == m1[k]
    IN  IF ~record.present \/ t >= record.expireAt
        THEN [store |-> [m1 EXCEPT ![k] = Rec(1, t + w)],
              res |-> Ok(Usage(1, FloorSec(t + w)))]
        ELSE [store |-> [m1 EXCEPT ![k] = Rec(MemNextCount(record), record.expireAt)],
              res |-> Ok(Usage(MemNextCount(record), FloorSec(record.expireAt)))]

MemDecrement(m, k) ==
    IF m[k].present /\ m[k].count > 0
    THEN [m EXCEPT ![k] = Rec(m[k].count - 1, m[k].expireAt)]
    ELSE m

\* A reset that zeroes the count and keeps the entry with its deadline.
MemResetZero(m, k) ==
    IF m[k].present THEN [m EXCEPT ![k] = Rec(0, m[k].expireAt)] ELSE m

\* reset(key): the entry is deleted.
MemReset(m, k) == [m EXCEPT ![k] = NoRec]

----------------------------------------------------------------------------
(* Key expiry done by the backend itself (Redis key TTL, KV expirationTtl):
   a key whose time-to-live has run out is gone for every command. *)

Expire(s, t) ==
    [k \in Keys |-> IF s[k].present /\ s[k].expireAt # NoTTL /\ t >= s[k].expireAt
                    THEN NoRec ELSE s[k]]

\* PTTL: -2 for a missing key, -1 for a key without expiry.
PTTL(s, k, t) ==
    LET s0 == Expire(s, t)
    IN  IF ~s0[k].present THEN -2
        ELSE IF s0[k].expireAt = NoTTL THEN -1
        ELSE s0[k].expireAt - t

(* RedisStorage, Lua script adapter *)

\* A script whose write to an existing key is lost: it replies count + 1
\* and leaves the stored count as it was.
LuaIncrLost(s, k, w, t) ==
    LET s0 == Expire(s, t)
        v == s0[k].count + 1
    IN  IF s0[k].present
        THEN [store |-> s0, reply |-> Reply(Num(v), Num(s0[k].expireAt - t))]
        ELSE [store |-> [s0 EXCEPT ![k] = Rec(v, t + w)],
              reply |-> Reply(Num(v), Str(w))]

\* incrScript, evaluated by the server as one command: INCR, PTTL, and
\* PEXPIRE only when the key has no time-to-live; returns {v, ttl}.
LuaIncr(s, k, w, t) ==
    LET s0 == Expire(s, t)
        v == s0[k].count + 1
        ttl == IF s0[k].present /\ s0[k].expireAt # NoTTL
               THEN s0[k].expireAt - t ELSE -1
    IN  IF ttl < 0
        THEN [store |-> [s0 EXCEPT ![k] = Rec(v, t + w)],
              reply |-> Reply(Num(v), Str(w))]
        ELSE [store |-> [s0 EXCEPT ![k] = Rec(v, s0[k].expireAt)],
              reply |-> Reply(Num(v), Num(ttl))]

\* increment after the eval: count and ttl from the reply, reset from the
\* clock at that moment.
RedisResult(reply, w, t) ==
    LET count == ExtractNumberFromReply(reply.c)
        ttl == ExtractNumberFromReply(reply.x)
    IN  IF ~count.ok \/ ~ttl.ok THEN Raise
        ELSE LET effectiveTtl == IF ttl.v > 0 THEN ttl.v ELSE w
             IN  Ok(Usage(count.v, FloorSec(t + effectiveTtl)))

\* decrScript: GET; nil for a missing key; DECR only when the value is > 0.
LuaDecr(s, k, t) ==
    LET s0 == Expire(s, t)
    IN  IF s0[k].present /\ s0[k].count > 0
        THEN [s0 EXCEPT ![k] = Rec(s0[k].count - 1, s0[k].expireAt)]
        ELSE s0

\* DEL
RedisDel(s, k, t) == [Expire(s, t) EXCEPT ![k] = NoRec]

(* RedisStorage, MULTI/EXEC adapter *)

\* multi().incr(key).pExpire(key, windowMs).exec(): both commands run as
\* one transaction, and PEXPIRE is issued on every increment.
MultiIncr(s, k, w, t) ==
    LET s0 == Expire(s, t)
        v == s0[k].count + 1
    IN  [store |-> [s0 EXCEPT ![k] = Rec(v, t + w)],
         reply |-> Reply(Num(v), Nil)]

\* increment after the exec: the count from the INCR reply, the ttl from a
\* PTTL read at that moment.
MultiResult(reply, ttl, w, t) ==
    LET count == ExtractNumberFromReply(reply.c)
    IN  IF ~count.ok THEN Raise
        ELSE LET effectiveTtl == IF ttl > 0 THEN ttl ELSE w
             IN  Ok(Usage(count.v, FloorSec(t + effectiveTtl)))

\* decrement: EXISTS, GET, then DECR when the value is > 0.
MultiDecr(s, k, t) ==
    LET s0 == Expire(s, t)
    IN  IF ~s0[k].present THEN s0
        ELSE IF s0[k].count > 0
             THEN [s0 EXCEPT ![k] = Rec(s0[k].count - 1, s0[k].expireAt)]
             ELSE s0

----------------------------------------------------------------------------
(* MongoStorage *)

\* findOneAndUpdate({_id}, {$inc: {count: 1}, $setOnInsert: {expireAt}},
\* {upsert: true, returnDocument: "after"}): one atomic upsert.  expireAt
\* was computed by the caller at time tArg.
MongoUpsert(s, k, w, tArg) ==
    LET doc == IF s[k].present
               THEN Rec(s[k].count + 1, s[k].expireAt)
               ELSE Rec(1, tArg + w)
    IN  [store |-> [s EXCEPT ![k] = doc],
         reply |-> Reply(Num(doc.count), Num(doc.expireAt))]

\* increment after the upsert: count and expireAt of the returned document.
\* No document raises; a count that is no number goes through
\* Number(doc.count || 0).
MongoResult(reply, w, t) ==
    IF reply.c.t = "none" THEN Raise
    ELSE LET count == NumberOrZero(reply.c)
             ttl == Max(reply.x.v - t, 0)
         IN  IF count.nan THEN OkNaN
             ELSE Ok(Usage(count.v, FloorSec(t + ttl)))

\* updateOne({_id, count: {$gt: 0}}, {$inc: {count: -1}})
MongoDecr(s, k) ==
    IF s[k].present /\ s[k].count > 0
    THEN [s EXCEPT ![k] = Rec(s[k].count - 1, s[k].expireAt)]
    ELSE s

\* deleteOne({_id})
MongoDelete(s, k) == [s EXCEPT ![k] = NoRec]

\* The TTL index on expireAt (expireAfterSeconds: 0): the server's
\* background monitor deletes expired documents at some later time.
MongoTtlMonitor(s, t) ==
    [k \in Keys |-> IF s[k].present /\ t >= s[k].expireAt THEN NoRec ELSE s[k]]

----------------------------------------------------------------------------
(* PostgresStorage *)

\* An upsert that rotates already when expire_at <= now().
PgUpsertAtExpiry(s, k, w, tArg, tDb) ==
    LET row == IF ~s[k].present THEN Rec(1, tArg + w)
               ELSE IF s[k].expireAt <= tDb THEN Rec(1, tArg + w)
               ELSE Rec(s[k].count + 1, s[k].expireAt)
    IN  [store |-> [s EXCEPT ![k] = row],
         reply |-> Reply(Str(row.count), Num(row.expireAt))]

\* The upsert statement: INSERT (id, 1, expireAt) ON CONFLICT DO UPDATE with
\* CASE WHEN expire_at < now() THEN 1 / EXCLUDED.expire_at
\*      ELSE count + 1 / expire_at.
\* expireAt was computed by the caller at tArg; now() is the time tDb at
\* which the statement runs.  count is a BIGINT, returned as a string.
PgUpsert(s, k, w, tArg, tDb) ==
    LET row == IF ~s[k].present THEN Rec(1, tArg + w)
               ELSE IF s[k].expireAt < tDb THEN Rec(1, tArg + w)
               ELSE Rec(s[k].count + 1, s[k].expireAt)
    IN  [store |-> [s EXCEPT ![k] = row],
         reply |-> Reply(Str(row.count), Num(row.expireAt))]

\* increment after the query: no row raises; otherwise
\* Number(row.count ?? 0) and Number(row.expire_at_ms).
PgResult(reply, w, t) ==
    IF reply.c.t = "none" THEN Raise
    ELSE LET count == NumberOrZero(reply.c)
             ttl == Max(reply.x.v - t, 0)
         IN  IF count.nan THEN OkNaN
             ELSE Ok(Usage(count.v, FloorSec(t + ttl)))

\* UPDATE SET count = count - 1 WHERE id = $1 AND count > 0
PgDecr(s, k) ==
    IF s[k].present /\ s[k].count > 0
    THEN [s EXCEPT ![k] = Rec(s[k].count - 1, s[k].expireAt)]
    ELSE s

\* DELETE FROM rate_limits WHERE id = $1
PgDelete(s, k) == [s EXCEPT ![k] = NoRec]

(* DrizzlePostgresStorage: the same statements through db.execute *)

DrizzleUpsert(s, k, w, tArg, tDb) ==
    LET row == IF ~s[k].present THEN Rec(1, tArg + w)
               ELSE IF s[k].expireAt < tDb THEN Rec(1, tArg + w)
               ELSE Rec(s[k].count + 1, s[k].expireAt)
    IN  [store |-> [s EXCEPT ![k] = row],
         reply |-> Reply(Str(row.count), Num(row.expireAt))]

DrizzleResult(reply, w, t) ==
    IF reply.c.t = "none" THEN Raise
    ELSE LET count == NumberOrZero(reply.c)
             ttl == Max(reply.x.v - t, 0)
         IN  IF count.nan THEN OkNaN
             ELSE Ok(Usage(count.v, FloorSec(t + ttl)))

DrizzleDecr(s, k) ==
    IF s[k].present /\ s[k].count > 0
    THEN [s EXCEPT ![k] = Rec(s[k].count - 1, s[k].expireAt)]
    ELSE s

DrizzleDelete(s, k) == [s EXCEPT ![k] = NoRec]

----------------------------------------------------------------------------
(* EdgeStorage *)

\* Upstash: the result of ["EVAL", incrScript, "1", k, windowMs]; count and
\* ttl are read with extractNumber.
UpstashResult(reply, w, t) ==
    LET count == ExtractNumber(reply.c)
        ttl == ExtractNumber(reply.x)
    IN  IF ~count.ok \/ ~ttl.ok THEN Raise
        ELSE LET effectiveTtl == IF ttl.v > 0 THEN ttl.v ELSE w
             IN  Ok(Usage(count.v, FloorSec(t + effectiveTtl)))

\* Cloudflare KV: kv.get(k, "text"), null for a missing or expired key.
KvGet(s, k, t) ==
    LET s0 == Expire(s, t)
    IN  IF s0[k].present THEN Str(s0[k].count) ELSE Nil

\* A read that takes every key for missing.
KvPrevZero(raw) == 0

\* prev = Number(raw ?? "0") || 0
KvPrev(raw) == IF raw.t = "nil" \/ raw.t = "bad" THEN 0 ELSE raw.v

\* ttlSec = Math.ceil(windowMs / 1000)
KvTtlSec(w) == CeilSec(w)

\* kv.put(k, String(next), {expirationTtl: ttlSec})
KvPut(s, k, next, ttlSec, t) ==
    [Expire(s, t) EXCEPT ![k] = Rec(next, t + ttlSec * SecMs)]

\* kv.put(k, String(next)) of decrement: no expirationTtl.
KvPutNoTtl(s, k, next, t) ==
    [Expire(s, t) EXCEPT ![k] = Rec(next, NoTTL)]

\* increment's result on the KV path.
KvResult(next, w, t) == Ok(Usage(next, FloorSec(t + KvTtlSec(w) * SecMs)))

\* decrement on the KV path: read, max(0, prev - 1), write back.
KvDecr(s, k, t) ==
    KvPutNoTtl(s, k, Max(0, KvPrev(KvGet(s, k, t)) - 1), t)

\* kv.delete(k)
KvDelete(s, k, t) == [Expire(s, t) EXCEPT ![k] = NoRec]

----------------------------------------------------------------------------
(* One whole adapter call, made while no other call is in flight and the
   clock stands still: the backend operation and the caller's computation of
   the result happen at the same time t. *)

AdapterIncrement(kd, s, k, w, t) ==
    CASE kd = "memory" -> MemIncrement(s, k, w, t)
      [] kd = "redis" ->
            LET r == LuaIncr(s, k, w, t)
            IN  [store |-> r.store, res |-> RedisResult(r.reply, w, t)]
      [] kd = "redisMulti" ->
            LET r == MultiIncr(s, k, w, t)
            IN  [store |-> r.store,
                 res |-> MultiResult(r.reply, PTTL(r.store, k, t), w, t)]
      [] kd = "mongodb" ->
            LET r == MongoUpsert(s, k, w, t)
            IN  [store |-> r.store, res |-> MongoResult(r.reply, w, t)]
      [] kd = "postgresql" ->
            LET r == PgUpsert(s, k, w, t, t)
            IN  [store |-> r.store, res |-> PgResult(r.reply, w, t)]
      [] kd = "drizzle" ->
            LET r == DrizzleUpsert(s, k, w, t, t)
            IN  [store |-> r.store, res |-> DrizzleResult(r.reply, w, t)]
      [] kd = "upstash" ->
            LET r == LuaIncr(s, k, w, t)
            IN  [store |-> r.store, res |-> UpstashResult(r.reply, w, t)]
      [] kd = "cloudflare" ->
            LET next == KvPrev(KvGet(s, k, t)) + 1
            IN  [store |-> KvPut(s, k, next, KvTtlSec(w), t),
                 res |-> KvResult(next, w, t)]

AdapterDecrement(kd, s, k, t) ==
    CASE kd = "memory" -> MemDecrement(s, k)
      [] kd = "redis" -> LuaDecr(s, k, t)
      [] kd = "redisMulti" -> MultiDecr(s, k, t)
      [] kd = "mongodb" -> MongoDecr(s, k)
      [] kd = "postgresql" -> PgDecr(s, k)
      [] kd = "drizzle" -> DrizzleDecr(s, k)
      [] kd = "upstash" -> LuaDecr(s, k, t)
      [] kd = "cloudflare" -> KvDecr(s, k, t)

AdapterReset(kd, s, k, t) ==
    CASE kd = "memory" -> MemReset(s, k)
      [] kd = "redis" -> RedisDel(s, k, t)
      [] kd = "redisMulti" -> RedisDel(s, k, t)
      [] kd = "mongodb" -> MongoDelete(s, k)
      [] kd = "postgresql" -> PgDelete(s, k)
      [] kd = "drizzle" -> DrizzleDelete(s, k)
      [] kd = "upstash" -> RedisDel(s, k, t)
      [] kd = "cloudflare" -> KvDelete(s, k, t)

\* The counters as the backend holds them at time t: a Redis or KV key past
\* its time-to-live is gone; a map entry, document or row stays until the
\* adapter or the TTL monitor removes it.
Held(kd, s, t) ==
    IF kd \in {"redis", "redisMulti", "upstash", "cloudflare"}
    THEN Expire(s, t) ELSE s

\* A stored counter whose window is still open at time t.
Live(rec, t) == rec.present /\ (rec.expireAt = NoTTL \/ t < rec.expireAt)

----------------------------------------------------------------------------
(* Values the other specifications' variables keep while unused *)

NoLast == [seq |-> 0, op |-> "none", key |-> "k1", at |-> 0, pre |-> NoRec,
           ok |-> TRUE, usage |-> NoUsage, afterReset |-> FALSE]
NoRun == [k \in Keys |-> 0]
Procs == 1 .. NProcs
IdleProc == [pc |-> "idle", key |-> "k1", tArg |-> 0, raw |-> Nil,
             reply |-> NoReply, ttl |-> 0, res |-> Raise, counted |-> 0]
NoProc == [p \in Procs |-> IdleProc]
NoOpts == [configured |-> TRUE, limit |-> 0]
NoHeaders == [stamped |-> FALSE, limit |-> 0, remaining |-> 0, reset |-> 0,
              retryAfter |-> {}]
NoResponse == [status |-> 0, from |-> "none", headers |-> NoHeaders]
NoReq == [pc |-> "idle", skipped |-> FALSE, key |-> "k1", dyn |-> FALSE,
          limit |-> 0, fnRaised |-> "none", incRaised |-> FALSE, usage |-> NoUsage,
          webhook |-> "none", notified |-> 0, notifyCalls |-> 0,
          notifyUsage |-> NoUsage, cbRaised |-> FALSE,
          handlerCalls |-> 0, handlerRaised |-> FALSE, stampRaised |-> FALSE,
          adapterOps |-> 0, retryDue |-> FALSE, events |-> <<>>,
          hdrs |-> NoHeaders, store0 |-> EmptyStore, outcome |-> "pending", err |-> "none",
          response |-> NoResponse]
NoSeen == [k \in Keys |-> [n |-> 0, start |-> 0, retryAt |-> {}]]
NoRoute == [pc |-> "none"]
NoConn == [arg |-> "none", ownsClient |-> FALSE, client |-> "none",
           suppliedOpen |-> FALSE, createdOpen |-> FALSE, closed |-> FALSE]

----------------------------------------------------------------------------
(* SpecStore: one adapter, one caller, one operation at a time *)

InitStore ==
    /\ now = 0
    /\ kind \in Kinds
    /\ windowMs \in Windows
    /\ store = EmptyStore
    /\ last = NoLast
    /\ run = NoRun
    /\ proc = NoProc
    /\ opts = NoOpts
    /\ req = NoReq
    /\ served = 0
    /\ seen = NoSeen
    /\ conn = NoConn
    /\ route = NoRoute

\* The number of increments counted in the stored window of key k once this
\* increment is done: 1 when the backend held no counter for k, one more
\* when it held a counter whose window is open and every call since that
\* counter was created was an increment; 0 (not a run) otherwise.
RunAfterIncrement(k) ==
    LET pre == Held(kind, store, now)[k]
    IN  IF ~pre.present THEN 1
        ELSE IF Live(pre, now) /\ run[k] > 0 THEN run[k] + 1
        ELSE 0

Increment(k) ==
    /\ last.seq < MaxOps
    /\ LET r == AdapterIncrement(kind, store, k, windowMs, now)
       IN  /\ store' = r.store
           /\ last' = [seq |-> last.seq + 1, op |-> "inc", key |-> k, at |-> now,
                       pre |-> Held(kind, store, now)[k],
                       ok |-> r.res.ok, usage |-> r.res.usage,
                       afterReset |-> (last.op = "reset" /\ last.key = k)]
    /\ run' = [run EXCEPT ![k] = RunAfterIncrement(k)]
    /\ UNCHANGED <<now, kind, windowMs, proc, opts, req, served, seen, conn, route>>

Decrement(k) ==
    /\ last.seq < MaxOps
    /\ store' = AdapterDecrement(kind, store, k, now)
    /\ last' = [seq |-> last.seq + 1, op |-> "dec", key |-> k, at |-> now,
                pre |-> Held(kind, store, now)[k], ok |-> TRUE, usage |-> NoUsage,
                afterReset |-> FALSE]
    /\ run' = [run EXCEPT ![k] = 0]
    /\ UNCHANGED <<now, kind, windowMs, proc, opts, req, served, seen, conn, route>>

Reset(k) ==
    /\ last.seq < MaxOps
    /\ store' = AdapterReset(kind, store, k, now)
    /\ last' = [seq |-> last.seq + 1, op |-> "reset", key |-> k, at |-> now,
                pre |-> Held(kind, store, now)[k], ok |-> TRUE, usage |-> NoUsage,
                afterReset |-> FALSE]
    /\ run' = [run EXCEPT ![k] = 0]
    /\ UNCHANGED <<now, kind, windowMs, proc, opts, req, served, seen, conn, route>>

\* Time passes.
Tick(d) ==
    /\ now + d <= MaxTime
    /\ now' = now + d
    /\ UNCHANGED <<kind, windowMs, store, last, run, proc, opts, req, served, seen, conn, route>>

\* The document database's TTL monitor runs.
TtlMonitor ==
    /\ kind = "mongodb"
    /\ store' = MongoTtlMonitor(store, now)
    /\ store' # store
    /\ UNCHANGED <<now, kind, windowMs, last, run, proc, opts, req, served, seen, conn, route>>

NextStore ==
    \/ \E k \in Keys : Increment(k)
    \/ \E k \in Keys : Decrement(k)
    \/ \E k \in Keys : Reset(k)
    \/ \E d \in TickSteps : Tick(d)
    \/ TtlMonitor

SpecStore == InitStore /\ [][NextStore]_vars

----------------------------------------------------------------------------
(* SpecConc: one adapter shared by several callers, each making one
   increment(key, windowMs); the calls interleave at the adapter's awaits. *)

InitConc ==
    /\ now = 0
    /\ kind \in Kinds
    /\ windowMs \in Windows
    /\ store = EmptyStore
    /\ last = NoLast
    /\ run = NoRun
    /\ proc = NoProc
    /\ opts = NoOpts
    /\ req = NoReq
    /\ served = 0
    /\ seen = NoSeen
    /\ conn = NoConn
    /\ route = NoRoute

ConcFrame == UNCHANGED <<now, kind, windowMs, last, opts, req, served, seen, conn, route>>

\* The callers contend for one key.
ConcKeys == {"k1"}

\* Callers are interchangeable: they start in the order of their numbers.
MayStart(p) == proc[p].pc = "idle" /\ \A q \in Procs : q < p => proc[q].pc # "idle"

\* Adapters that compute expireAt themselves, from Date.now(), before the
\* backend call; the others pass windowMs and leave the clock to the backend.
ComputesExpireAt == {"memory", "mongodb", "postgresql", "drizzle"}

\* MemoryStorage.increment has no await: the whole call is one step.
CallMemory(p, k) ==
    /\ kind = "memory"
    /\ MayStart(p)
    /\ LET r == MemIncrement(store, k, windowMs, now)
       IN  /\ store' = r.store
           /\ proc' = [proc EXCEPT ![p] = [@ EXCEPT !.pc = "done", !.key = k,
                          !.tArg = now, !.res = r.res,
                          !.counted = r.store[k].expireAt]]
    /\ run' = [run EXCEPT ![k] = RunAfterIncrement(k)]
    /\ ConcFrame

\* The other adapters: the caller computes its arguments (expireAt from
\* Date.now()) and awaits the backend.
Prepare(p, k) ==
    /\ kind # "memory"
    /\ MayStart(p)
    /\ proc' = [proc EXCEPT ![p] = [@ EXCEPT !.pc = "prepared", !.key = k,
                   !.tArg = IF kind \in ComputesExpireAt THEN now ELSE 0]]
    /\ UNCHANGED <<store, run>>
    /\ ConcFrame

\* The backend's reply to the one atomic operation of an atomic adapter.
BackendIncr(kd, s, k, w, tArg, tDb) ==
    CASE kd \in ScriptKinds -> LuaIncr(s, k, w, tDb)
      [] kd = "redisMulti" -> MultiIncr(s, k, w, tDb)
      [] kd = "mongodb" -> MongoUpsert(s, k, w, tArg)
      [] kd = "postgresql" -> PgUpsert(s, k, w, tArg, tDb)
      [] kd = "drizzle" -> DrizzleUpsert(s, k, w, tArg, tDb)

\* The backend runs the script, transaction or upsert.
Execute(p) ==
    /\ kind \in AtomicKinds \ {"memory"}
    /\ proc[p].pc = "prepared"
    /\ LET r == BackendIncr(kind, store, proc[p].key, windowMs, proc[p].tArg, now)
       IN  /\ store' = r.store
           /\ proc' = [proc EXCEPT ![p] = [@ EXCEPT !.pc = "executed",
                          !.reply = r.reply,
                          !.counted = r.store[proc[p].key].expireAt]]
    /\ run' = [run EXCEPT ![proc[p].key] = RunAfterIncrement(proc[p].key)]
    /\ ConcFrame

\* Cloudflare KV: the read ...
KvRead(p) ==
    /\ kind = "cloudflare"
    /\ proc[p].pc = "prepared"
    /\ proc' = [proc EXCEPT ![p] = [@ EXCEPT !.pc = "read",
                   !.raw = KvGet(store, proc[p].key, now)]]
    /\ UNCHANGED <<store, run>>
    /\ ConcFrame

\* ... and, after the await, the write of prev + 1.
KvWrite(p) ==
    /\ kind = "cloudflare"
    /\ proc[p].pc = "read"
    /\ LET next == KvPrev(proc[p].raw) + 1
       IN  /\ store' = KvPut(store, proc[p].key, next, KvTtlSec(windowMs), now)
           /\ proc' = [proc EXCEPT ![p] = [@ EXCEPT !.pc = "executed",
                          !.reply = Reply(Num(next), Nil),
                          !.counted = now + KvTtlSec(windowMs) * SecMs]]
    /\ run' = [run EXCEPT ![proc[p].key] = RunAfterIncrement(proc[p].key)]
    /\ ConcFrame

\* The MULTI/EXEC adapter reads the ttl with a second command.
ReadTtl(p) ==
    /\ kind = "redisMulti"
    /\ proc[p].pc = "executed"
    /\ proc' = [proc EXCEPT ![p] = [@ EXCEPT !.pc = "ttlread",
                   !.ttl = PTTL(store, proc[p].key, now)]]
    /\ UNCHANGED <<store, run>>
    /\ ConcFrame

\* The caller's computation of the usage record from the reply.
ClientResult(kd, pr, w, t) ==
    CASE kd = "redis" -> RedisResult(pr.reply, w, t)
      [] kd = "upstash" -> UpstashResult(pr.reply, w, t)
      [] kd = "redisMulti" -> MultiResult(pr.reply, pr.ttl, w, t)
      [] kd = "mongodb" -> MongoResult(pr.reply, w, t)
      [] kd = "postgresql" -> PgResult(pr.reply, w, t)
      [] kd = "drizzle" -> DrizzleResult(pr.reply, w, t)
      [] kd = "cloudflare" -> KvResult(pr.reply.c.v, w, t)

\* The awaited call resumes and increment returns.
Return(p) ==
    /\ kind # "memory"
    /\ proc[p].pc = IF kind = "redisMulti" THEN "ttlread" ELSE "executed"
    /\ proc' = [proc EXCEPT ![p] = [@ EXCEPT !.pc = "done",
                   !.res = ClientResult(kind, proc[p], windowMs, now)]]
    /\ UNCHANGED <<store, run>>
    /\ ConcFrame

NextConc ==
    \/ \E p \in Procs, k \in ConcKeys : CallMemory(p, k)
    \/ \E p \in Procs, k \in ConcKeys : Prepare(p, k)
    \/ \E p \in Procs : Execute(p)
    \/ \E p \in Procs : KvRead(p)
    \/ \E p \in Procs : KvWrite(p)
    \/ \E p \in Procs : ReadTtl(p)
    \/ \E p \in Procs : Return(p)
    \/ \E d \in TickSteps : Tick(d)

SpecConc == InitConc /\ [][NextConc]_vars

\* counted, in each caller's record, is the expiry the backend held for the
\* key right after this caller's increment was counted: the end of the window
\* its used belongs to.

----------------------------------------------------------------------------
(* Claims about the adapters, checked under SpecStore *)

\* C7: on a backend that cannot lose updates, the n-th increment of a key
\* inside one window (the window opened by an increment that found no stored
\* counter, still open, with no decrement or reset since) returns used = n.
C7_NthIncrementReturnsN ==
    (last.op = "inc" /\ kind \in AtomicKinds /\ run[last.key] > 0)
        => (last.ok /\ last.usage.used = run[last.key])

\* C7 witness: a third increment inside one window of the relational adapter.
C7_ThirdIncrement ==
    /\ last.op = "inc"
    /\ kind = "postgresql"
    /\ run[last.key] = 3
    /\ last.usage.used = 3

\* C8, as claimed, for the document adapter: an increment on a key that has
\* no live counter (none stored, or a stored one whose expiry lies in the
\* past) returns used = 1 and reset = floor((now + windowMs) / 1000).
C8_NoLiveCounterGivesOne ==
    (/\ last.op = "inc"
     /\ kind = "mongodb"
     /\ (~last.pre.present \/ last.at > last.pre.expireAt))
        => /\ last.ok
           /\ last.usage.used = 1
           /\ last.usage.reset = FloorSec(last.at + windowMs)

\* C9, as claimed: for the in-process and relational adapters an increment
\* at any time now >= the stored expiry, now = expiry included, returns
\* used = 1 and a newly computed expiry.
C9_RotatesAtOrAfterExpiry ==
    (/\ last.op = "inc"
     /\ kind \in {"memory"} \cup Relational
     /\ last.pre.present
     /\ last.at >= last.pre.expireAt)
        => /\ last.usage.used = 1
           /\ last.usage.reset = FloorSec(last.at + windowMs)
           /\ store[last.key] = Rec(1, last.at + windowMs)

\* C9, amended: the in-process adapter rotates at any time now >= the stored
\* expiry; the relational adapters rotate at any time now > the stored
\* expiry, and at now = expiry still count into the old window (previous
\* count plus one, expiry kept).
C9_RotatesAfterExpiry ==
    /\ (/\ last.op = "inc"
        /\ last.pre.present
        /\ \/ kind = "memory" /\ last.at >= last.pre.expireAt
           \/ kind \in Relational /\ last.at > last.pre.expireAt)
          => /\ last.usage.used = 1
             /\ last.usage.reset = FloorSec(last.at + windowMs)
             /\ store[last.key] = Rec(1, last.at + windowMs)
    /\ (/\ last.op = "inc"
        /\ last.pre.present
        /\ kind \in Relational
        /\ last.at = last.pre.expireAt)
          => /\ last.usage.used = last.pre.count + 1
             /\ last.usage.reset = FloorSec(last.pre.expireAt)
             /\ store[last.key] = Rec(last.pre.count + 1, last.pre.expireAt)

\* C9 witness: the relational adapter rotates a window that had counted two
\* requests, strictly after its expiry.
C9_RelationalRotation ==
    /\ last.op = "inc"
    /\ kind = "postgresql"
    /\ last.pre.present
    /\ last.pre.count = 2
    /\ last.at > last.pre.expireAt
    /\ last.usage.used = 1

----------------------------------------------------------------------------
(* Claims about concurrent callers, checked under SpecConc *)

\* The callers whose increment of key k the backend has executed.
ExecOn(k) ==
    {p \in Procs : proc[p].key = k /\ proc[p].pc \in {"executed", "ttlread", "done"}}

\* The callers whose increment of key k has returned.
DoneOn(k) == {p \in ExecOn(k) : proc[p].pc = "done"}

\* C10: on the atomic adapters, in every interleaving of concurrent
\* increments of one key inside one window (every increment the backend has
\* executed counted into the window the first one opened), the values of
\* used returned so far are pairwise distinct and lie in 1..N, N the number
\* of executed increments -- so they are exactly 1..N once all have
\* returned -- and the stored count is N.
C10_NoLostUpdate ==
    \A k \in ConcKeys :
        (kind \in AtomicKinds /\ run[k] > 0 /\ run[k] = Cardinality(ExecOn(k)))
            => /\ \A p \in DoneOn(k) :
                    /\ proc[p].res.ok
                    /\ proc[p].res.usage.used \in 1 .. Cardinality(ExecOn(k))
               /\ \A p, q \in DoneOn(k) :
                    p # q => proc[p].res.usage.used # proc[q].res.usage.used
               /\ LET rec == Held(kind, store, now)[k]
                  IN  rec.present => rec.count = Cardinality(ExecOn(k))

\* C10 witness: every caller has returned from the script adapter inside one
\* window, the backend served them out of their starting order (the first
\* caller got the last number), and the stored count is the number of callers.
C10_AllReturnedOutOfOrder ==
    /\ kind = "redis"
    /\ DoneOn("k1") = Procs
    /\ run["k1"] = NProcs
    /\ proc[1].res.usage.used = NProcs
    /\ {proc[p].res.usage.used : p \in Procs} = 1 .. NProcs
    /\ Held(kind, store, now)["k1"].present
    /\ Held(kind, store, now)["k1"].count = NProcs

----------------------------------------------------------------------------
(* Spec: the handler returned by withRateLimit(options)(handler); requests
   are processed one after another.  The options that a route override can
   change per request (skip, keyGenerator, getLimitForRequest, webhook,
   onLimitReached, handler) are chosen at the step that reads them. *)

MaxReq == 2

Limits == {1, 2}
DynamicLimits == {0, 1}

\* The adapters withRateLimit can construct: storage "memory", "redis",
\* "mongodb", "postgresql", and "edge" with either provider.
PipelineKinds == {"memory", "redis", "mongodb", "postgresql", "upstash", "cloudflare"}

\* A storage kind other than memory was selected without its configuration
\* or client.
Misconfigured == kind # "memory" /\ ~opts.configured

\* withRateLimit(options) merges the options over the defaults and returns
\* the wrapper; it constructs nothing and raises nothing.
Init ==
    /\ now = 0
    /\ kind \in PipelineKinds
    /\ windowMs \in Windows
    /\ store = EmptyStore
    /\ last = NoLast
    /\ run = NoRun
    /\ proc = NoProc
    /\ opts \in [configured : BOOLEAN, limit : Limits]
    /\ (kind = "memory" => opts.configured)
    /\ req = NoReq
    /\ served = 0
    /\ seen = NoSeen
    /\ conn = NoConn
    /\ route = NoRoute

ReqFrame == UNCHANGED <<now, kind, windowMs, last, run, proc, opts, conn, route>>

\* The time between the end of one request and the arrival of the next.
Gaps == {0, 500, 1000}

\* A request arrives at rateLimitedHandler, d ms after the previous one ended.
Start(d) ==
    /\ req.pc \in {"idle", "done"}
    /\ served < MaxReq
    /\ now + d <= MaxTime
    /\ now' = now + d
    /\ req' = [NoReq EXCEPT !.pc = "init"]
    /\ served' = served + 1
    /\ UNCHANGED <<store, seen, conn, route>>
    /\ UNCHANGED <<kind, windowMs, last, run, proc, opts, conn, route>>

\* The request ends by raising err to its caller.
Threw(r, err) == [r EXCEPT !.pc = "done", !.outcome = "threw", !.err = err]

\* The request ends by returning a response.
Returned(r, resp) == [r EXCEPT !.pc = "done", !.outcome = "returned", !.response = resp]

\* handler(req) returned directly: its response, or its own error.
ReturnHandler(r, h) ==
    LET r1 == [r EXCEPT !.handlerCalls = @ + 1, !.handlerRaised = (@ \/ h = "raises"),
                        !.events = Append(@, "handler")]
    IN  IF h = "raises" THEN Threw(r1, "handler")
        ELSE Returned(r1, [status |-> 200, from |-> "handler", headers |-> NoHeaders])

\* Storage initialisation, per request: a missing configuration raises here;
\* otherwise a new adapter object is built -- for the memory kind a new,
\* empty map, for the others a client of the shared backend.
InitStorage ==
    /\ req.pc = "init"
    /\ IF Misconfigured
       THEN /\ req' = Threw(req, "config")
            /\ UNCHANGED store
       ELSE /\ store' = IF kind = "memory" THEN EmptyStore ELSE store
            /\ req' = [req EXCEPT !.pc = "skip", !.store0 = store']
    /\ UNCHANGED <<served, seen, conn, route>>
    /\ ReqFrame

HandlerOutcomes == {"ok", "raises"}

\* A skip check whose answer is ignored: the request is counted all the same.
SkipCheckIgnored(s, h) ==
    /\ req.pc = "skip"
    /\ s \in {"none", "false", "true"}
    /\ h \in HandlerOutcomes
    /\ req' = [req EXCEPT !.pc = "key", !.skipped = (s = "true")]
    /\ UNCHANGED <<store, served, seen, conn, route>>
    /\ ReqFrame

\* The skip check: no predicate, or a predicate answering false or true.
SkipCheck(s, h) ==
    /\ req.pc = "skip"
    /\ s \in {"none", "false", "true"}
    /\ req' = IF s = "true" THEN ReturnHandler([req EXCEPT !.skipped = TRUE], h)
              ELSE [req EXCEPT !.pc = "key"]
    /\ UNCHANGED <<store, served, seen, conn, route>>
    /\ ReqFrame

\* Key derivation, outside the try: the default key (client ip and path) or
\* the custom keyGenerator, which may raise.
DeriveKey(g, k) ==
    /\ req.pc = "key"
    /\ g \in {"default", "custom", "raises"}
    /\ req' = IF g = "raises"
              THEN Threw([req EXCEPT !.fnRaised = "keyGenerator"], "keyGenerator")
              ELSE [req EXCEPT !.pc = "limit", !.key = k]
    /\ UNCHANGED <<store, served, seen, conn, route>>
    /\ ReqFrame

\* Limit resolution, outside the try: the static limit or the awaited
\* getLimitForRequest, which may reject.
ResolveLimit(d, l) ==
    /\ req.pc = "limit"
    /\ d \in {"static", "dynamic", "raises"}
    /\ req' = CASE d = "raises" ->
                     Threw([req EXCEPT !.fnRaised = "getLimitForRequest"],
                           "getLimitForRequest")
                [] d = "dynamic" ->
                     [req EXCEPT !.pc = "count", !.dyn = TRUE, !.limit = l]
                [] d = "static" -> [req EXCEPT !.pc = "count", !.limit = opts.limit]
    /\ UNCHANGED <<store, served, seen, conn, route>>
    /\ ReqFrame


\* The headers computed from the limit and the usage the adapter returned.
RateHeaders(limit, usage) ==
    [stamped |-> TRUE, limit |-> limit, remaining |-> Max(0, limit - usage.used),
     reset |-> usage.reset, retryAfter |-> {}]

\* Retry-After, in whole seconds, never negative.
RetryAfterSec(usage, t) == Max(0, CeilSec(usage.reset * SecMs - t))

\* The requests of key k that fall into the window its first request opened,
\* this one included.
SeenAfter(k) ==
    IF seen[k].n = 0 \/ now >= seen[k].start + windowMs
    THEN [n |-> 1, start |-> now, retryAt |-> {}]
    ELSE [n |-> seen[k].n + 1, start |-> seen[k].start, retryAt |-> {}]

\* The time a client denied at time t with this Retry-After may retry at.
RetryAt(retryAfter, t) == {t + r * SecMs : r \in retryAfter}

\* The last counted request of key k was denied, and the time its
\* Retry-After named has come.
RetryDue(k) == \E t \in seen[k].retryAt : now >= t

\* First statement of the try: storage.increment(key, windowMs), which for a
\* remote backend may fail; then the headers and the decision.
Count(fail) ==
    /\ req.pc = "count"
    /\ fail => kind # "memory"
    /\ LET r == IF fail THEN [store |-> store, res |-> Raise]
                ELSE AdapterIncrement(kind, store, req.key, windowMs, now)
           r1 == [req EXCEPT !.adapterOps = @ + 1]
           h == RateHeaders(req.limit, r.res.usage)
           denied == r.res.ok /\ r.res.usage.used > req.limit
           hd == IF denied
                 THEN [h EXCEPT !.retryAfter = {RetryAfterSec(r.res.usage, now)}]
                 ELSE h
       IN  /\ store' = r.store
           /\ req' = IF ~r.res.ok
                     THEN [r1 EXCEPT !.pc = "catch", !.incRaised = TRUE]
                     ELSE [r1 EXCEPT !.pc = IF denied THEN "notify" ELSE "handler",
                                     !.usage = r.res.usage,
                                     !.hdrs = hd,
                                     !.retryDue = RetryDue(req.key)]
           /\ seen' = IF r.res.ok
                      THEN [seen EXCEPT ![req.key] =
                              [SeenAfter(req.key) EXCEPT
                                  !.retryAt = RetryAt(hd.retryAfter, now)]]
                      ELSE seen
    /\ UNCHANGED served
    /\ ReqFrame

WebhookOutcomes == {"ok", "non2xx", "transport", "payloadRaises"}

\* WebhookHandler.notify: the body is built before the try, so a payload
\* function that raises makes notify raise; a transport error is caught and
\* a non-2xx status only logged.
WebhookNotify(w) ==
    IF w = "payloadRaises" THEN [raised |-> TRUE, sent |-> 0]
    ELSE [raised |-> FALSE, sent |-> 1]

\* A usage record handed over as the adapter built it, limit not merged in.
NotifyUsageUnmerged(usage, limit) == usage

\* { ...usage, limit }: the usage record with the enforced limit merged in.
NotifyUsage(usage, limit) == [usage EXCEPT !.limit = limit]

\* Deny branch: the webhook, when one is configured.  notify is awaited: once
\* the body is built and the request is on its way to the webhook URL, the
\* deny branch is suspended at the await until notify settles.
Notify(w) ==
    /\ req.pc = "notify"
    /\ w \in {"none"} \cup WebhookOutcomes
    /\ LET r == IF w = "none" THEN [req EXCEPT !.webhook = w]
                ELSE [req EXCEPT !.webhook = w,
                                 !.events = Append(@, "notify"),
                                 !.notifyCalls = @ + 1,
                                 !.notifyUsage = NotifyUsage(req.usage, req.limit)]
           n == WebhookNotify(w)
       IN  req' = IF w = "none" THEN [r EXCEPT !.pc = "onlimit"]
                  ELSE IF n.raised THEN [r EXCEPT !.pc = "catch"]
                  ELSE [r EXCEPT !.pc = "awaitNotify", !.notified = @ + n.sent]
    /\ UNCHANGED <<store, served, seen, conn, route>>
    /\ ReqFrame

\* The awaited notify settles: the transport answered (any status), failed,
\* or, in the axios version, its 5000 ms timeout fired.  The fetch version
\* sets no timeout: with a transport that never answers this step never
\* happens.
NotifySettled ==
    /\ req.pc = "awaitNotify"
    /\ req' = [req EXCEPT !.pc = "onlimit"]
    /\ UNCHANGED <<store, served, seen, conn, route>>
    /\ ReqFrame

\* Deny branch: the onLimitReached callback, when one is configured.
OnLimitReached(o) ==
    /\ req.pc = "onlimit"
    /\ o \in {"none", "ok", "raises"}
    /\ LET r == IF o = "none" THEN req
                ELSE [req EXCEPT !.events = Append(@, "onLimitReached")]
       IN  req' = IF o = "raises" THEN [r EXCEPT !.pc = "catch", !.cbRaised = TRUE]
                  ELSE [r EXCEPT !.pc = "respond"]
    /\ UNCHANGED <<store, served, seen, conn, route>>
    /\ ReqFrame

\* Deny branch: the custom handler's response, or the default 429 carrying
\* the headers.
Respond(c) ==
    /\ req.pc = "respond"
    /\ c \in {"default", "custom", "raises"}
    /\ LET r == [req EXCEPT !.events =
                      Append(@, IF c = "default" THEN "standard" ELSE "custom")]
       IN  req' = CASE c = "default" ->
                         Returned(r, [status |-> 429, from |-> "limiter",
                                      headers |-> req.hdrs])
                    [] c = "custom" ->
                         Returned(r, [status |-> 0, from |-> "custom",
                                      headers |-> NoHeaders])
                    [] c = "raises" -> [r EXCEPT !.pc = "catch", !.cbRaised = TRUE]
    /\ UNCHANGED <<store, served, seen, conn, route>>
    /\ ReqFrame

\* What the wrapped handler does in the allow branch: it raises, or returns
\* a response whose headers can be set, or returns one whose headers are
\* immutable (such as a fetched or redirect response), on which
\* response.headers.set raises.
AllowOutcomes == HandlerOutcomes \cup {"sealed"}

\* Allow branch: the wrapped handler, then the headers on its response.
CallHandler(h) ==
    /\ req.pc = "handler"
    /\ h \in AllowOutcomes
    /\ LET r == [req EXCEPT !.handlerCalls = @ + 1,
                            !.events = Append(@, "handler")]
       IN  req' = CASE h = "raises" ->
                       [r EXCEPT !.pc = "catch", !.handlerRaised = TRUE]
                  [] h = "sealed" ->
                       [r EXCEPT !.pc = "catch", !.stampRaised = TRUE]
                  [] h = "ok" ->
                       Returned(r, [status |-> 200, from |-> "handler",
                                    headers |-> req.hdrs])
    /\ UNCHANGED <<store, served, seen, conn, route>>
    /\ ReqFrame

\* A catch clause that lets the error out instead of allowing the request.
CatchRethrow(h) ==
    /\ req.pc = "catch"
    /\ h \in HandlerOutcomes
    /\ req' = Threw(req, "storage")
    /\ UNCHANGED <<store, served, seen, conn, route>>
    /\ ReqFrame

\* The catch clause: log, and allow the request.
Catch(h) ==
    /\ req.pc = "catch"
    /\ req' = ReturnHandler(req, h)
    /\ UNCHANGED <<store, served, seen, conn, route>>
    /\ ReqFrame

Next ==
    \/ \E d \in Gaps : Start(d)
    \/ InitStorage
    \/ \E s \in {"none", "false", "true"}, h \in HandlerOutcomes : SkipCheck(s, h)
    \/ \E g \in {"default", "custom", "raises"}, k \in Keys : DeriveKey(g, k)
    \/ \E d \in {"static", "dynamic", "raises"}, l \in DynamicLimits : ResolveLimit(d, l)
    \/ \E fail \in BOOLEAN : Count(fail)
    \/ \E w \in {"none"} \cup WebhookOutcomes : Notify(w)
    \/ NotifySettled
    \/ \E o \in {"none", "ok", "raises"} : OnLimitReached(o)
    \/ \E c \in {"default", "custom", "raises"} : Respond(c)
    \/ \E h \in AllowOutcomes : CallHandler(h)
    \/ \E h \in HandlerOutcomes : Catch(h)

Spec == Init /\ [][Next]_vars


----------------------------------------------------------------------------
(* Claims about the pipeline, checked under Spec *)

\* The response of the wrapped handler, as the handler built it.
HandlerResponse == [status |-> 200, from |-> "handler", headers |-> NoHeaders]

\* C1, as claimed: with a static limit L and the default in-process storage,
\* the i-th request of a key inside one window is allowed (wrapped handler
\* invoked, X-RateLimit-Remaining = L - i) when i <= L and denied (status
\* 429, X-RateLimit-Remaining = 0, Retry-After present) when i > L.
C1_IthRequestAllowedUpToLimit ==
    (/\ req.pc = "done"
     /\ kind = "memory"
     /\ ~req.skipped
     /\ ~req.dyn
     /\ req.adapterOps = 1
     /\ ~req.handlerRaised
     /\ ~req.stampRaised
     /\ ~req.cbRaised
     /\ req.webhook # "payloadRaises"
     /\ req.response.from # "custom")
        => LET i == seen[req.key].n
           IN  IF i <= opts.limit
               THEN /\ req.handlerCalls = 1
                    /\ req.response.from = "handler"
                    /\ req.response.headers.stamped
                    /\ req.response.headers.remaining = opts.limit - i
               ELSE /\ req.handlerCalls = 0
                    /\ req.response.status = 429
                    /\ req.response.headers.remaining = 0
                    /\ req.response.headers.retryAfter # {}

\* C2: when the adapter's increment raises, the wrapped handler is invoked
\* (once), the adapter's error does not reach the caller, and -- unless the
\* handler itself raises -- the handler's response is returned with no
\* rate-limit header added.
C2_FailOpenOnIncrementFailure ==
    (req.pc = "done" /\ req.incRaised)
        => /\ req.handlerCalls = 1
           /\ req.err \in {"none", "handler"}
           /\ \/ req.handlerRaised /\ req.outcome = "threw" /\ req.err = "handler"
              \/ req.outcome = "returned" /\ req.response = HandlerResponse

\* C2 witness: the second request finds the cache backend failing, after the
\* first was counted, and is answered by the wrapped handler.
C2_ServedDuringOutage ==
    /\ req.pc = "done"
    /\ kind = "redis"
    /\ req.incRaised
    /\ served = 2
    /\ store[req.key].present
    /\ req.outcome = "returned"
    /\ req.response = HandlerResponse

\* C3, as claimed: when the custom key function or the dynamic limit
\* function raises, the wrapped handler is invoked uncounted and the
\* rate-limited handler does not raise to its caller.
C3_FailOpenOnKeyOrLimitFailure ==
    (req.pc = "done" /\ req.fnRaised # "none")
        => /\ req.handlerCalls = 1
           /\ req.adapterOps = 0
           /\ req.err \notin {"keyGenerator", "getLimitForRequest"}

\* C4, as claimed: a storage kind selected without its configuration or
\* client makes the setup call raise, so no request is ever handled under
\* such options and no request ends in a configuration error.
C4_ConfigErrorOnlyAtSetup ==
    req.pc = "done" => (~Misconfigured /\ req.err # "config")

\* C5, as claimed: for a request with used > limit, whatever the
\* notification sink does (non-2xx status, transport error, payload function
\* raising), notify does not raise, the wrapped handler is not invoked and
\* the deny response is returned.
C5_NotificationFailureKeepsDeny ==
    (/\ req.pc = "done"
     /\ req.usage.used > req.limit
     /\ req.webhook \in {"non2xx", "transport", "payloadRaises"}
     /\ ~req.cbRaised)
        => /\ ~WebhookNotify(req.webhook).raised
           /\ req.handlerCalls = 0
           /\ req.outcome = "returned"
           /\ req.response.from \in {"limiter", "custom"}
           /\ (req.response.from = "limiter" => req.response.status = 429)

\* C6: when the skip predicate answers true, the wrapped handler is invoked
\* (once) and, unless it raises, its response is returned unchanged; no
\* adapter operation is called, every key's counter is as it was, and no
\* rate-limit header is added.
C6_SkipBypassesCounting ==
    (req.pc = "done" /\ req.skipped)
        => /\ req.handlerCalls = 1
           /\ req.adapterOps = 0
           /\ store = req.store0
           /\ req.hdrs = NoHeaders
           /\ \/ req.handlerRaised /\ req.outcome = "threw" /\ req.err = "handler"
              \/ req.outcome = "returned" /\ req.response = HandlerResponse

\* C6 witness: a skipped request answered by the wrapped handler while the
\* cache backend holds a counter from an earlier request.
C6_SkippedWithCounterHeld ==
    /\ req.pc = "done"
    /\ kind = "redis"
    /\ req.skipped
    /\ \E k \in Keys : store[k].present /\ store[k].count = 1
    /\ req.outcome = "returned"
    /\ req.response = HandlerResponse


----------------------------------------------------------------------------
(* Further claims about the adapters, checked under SpecStore *)

\* C11, as claimed: for every adapter, decrement on a key with no stored
\* counter creates no entry; on a stored counter it lowers the count by one,
\* never below zero, and leaves the window (the expiry) as it was.
C11_DecrementNeverCreates ==
    (last.op = "dec")
        => LET post == Held(kind, store, last.at)[last.key]
           IN  /\ ~last.pre.present => ~post.present
               /\ last.pre.present =>
                    /\ post.present
                    /\ post.count = Max(last.pre.count - 1, 0)
                    /\ post.expireAt = last.pre.expireAt


\* What increment(k, windowMs) at time t does on an adapter that has never
\* seen any key.
FreshIncrement(k, t) == AdapterIncrement(kind, EmptyStore, k, windowMs, t)

\* C12: for every adapter and whatever came before, an increment of a key
\* whose previous operation was reset returns the record an increment of a
\* never-seen key returns at that time -- used = 1 and the expiry computed
\* from that time -- and stores the same counter (compared before the clock
\* moves on).
C12_ResetThenIncrementIsFresh ==
    (last.op = "inc" /\ last.afterReset)
        => /\ last.ok
           /\ last.usage.used = 1
           /\ last.usage = FreshIncrement(last.key, last.at).res.usage
           /\ now = last.at =>
                 store[last.key] = FreshIncrement(last.key, last.at).store[last.key]

\* C12 witness: on the in-process adapter, after earlier operations and a
\* reset, an increment made later than the reset returns used = 1.
C12_IncrementAfterReset ==
    /\ last.op = "inc"
    /\ last.afterReset
    /\ kind = "memory"
    /\ last.seq = 4
    /\ last.at = 1000
    /\ last.usage.used = 1
    /\ last.usage.reset = FloorSec(last.at + windowMs)


\* The request was counted and its count is within the limit.
OnAllowPath == req.adapterOps = 1 /\ ~req.incRaised /\ req.usage.used <= req.limit

\* The three standard headers, as the limit and the usage record give them.
StandardHeaders(h) ==
    /\ h.stamped
    /\ h.limit = req.limit
    /\ h.remaining = Max(0, req.limit - req.usage.used)
    /\ h.reset = req.usage.reset

\* C18, as claimed: every response of a request on the allow path carries
\* X-RateLimit-Limit (the enforced limit, static or dynamic),
\* X-RateLimit-Remaining (max(0, limit - used)) and X-RateLimit-Reset (the
\* usage record's reset) and no Retry-After; every deny response of the
\* standard responder carries the three and Retry-After; the response of a
\* custom responder carries none of them.
C18_HeaderContract ==
    (req.pc = "done" /\ req.outcome = "returned")
        => /\ OnAllowPath
                => /\ StandardHeaders(req.response.headers)
                   /\ req.response.headers.retryAfter = {}
           /\ req.response.from = "limiter"
                => /\ StandardHeaders(req.response.headers)
                   /\ req.response.headers.retryAfter # {}
           /\ req.response.from = "custom"
                => req.response.headers = NoHeaders

\* C19, as claimed: Retry-After is never negative, and the first counted
\* request of a key made at or after the time the Retry-After of that key's
\* last denial named (the denial's time plus Retry-After seconds) finds the
\* window rotated -- its increment returns used = 1 -- and is allowed when
\* its limit is at least 1.
C19_RetryAfterReachesNextWindow ==
    /\ \A r \in req.hdrs.retryAfter : r >= 0
    /\ req.retryDue
          => /\ req.usage.used = 1
             /\ req.limit >= 1 => req.hdrs.retryAfter = {}

\* The request was counted and its count exceeds the limit.
Denied == req.usage.used > req.limit

\* C20: for a request whose used exceeds the limit and for which a webhook
\* is configured, notify is invoked exactly once, with the usage record of
\* that request carrying the enforced limit; for any other request
\* (allowed, skipped, or let through after a failure before the decision)
\* notify is not invoked.
C20_NotifiedOncePerDenial ==
    /\ (/\ req.pc \in {"awaitNotify", "onlimit", "respond", "catch", "done"}
        /\ Denied
        /\ req.webhook # "none")
          => /\ req.notifyCalls = 1
             /\ req.notifyUsage.limit = req.limit
             /\ req.notifyUsage.used = req.usage.used
             /\ req.notifyUsage.reset = req.usage.reset
    /\ (~Denied \/ req.webhook = "none") => req.notifyCalls = 0

\* C20 witness: with limit 1 on the cache backend, the first request was
\* allowed and the second, counted as 2, was denied with the standard
\* response after one notification carrying limit 1.
C20_SecondRequestNotified ==
    /\ req.pc = "done"
    /\ kind = "redis"
    /\ served = 2
    /\ ~req.dyn
    /\ req.limit = 1
    /\ req.usage.used = 2
    /\ req.webhook = "ok"
    /\ req.notifyCalls = 1
    /\ req.notifyUsage.limit = 1
    /\ req.response.status = 429

\* C26, as claimed: every request that has run to its end has yielded one
\* response (it has not ended by raising to its caller), and the adapter's
\* increment was called at most once for it.
C26_OneResponsePerRequest ==
    /\ req.adapterOps <= 1
    /\ req.pc = "done"
          => /\ req.outcome = "returned"
             /\ req.response.from \in {"handler", "limiter", "custom"}

\* The sequences of events of a deny path: the notification when a webhook
\* is configured, then onLimitReached when configured, then one response,
\* from the custom responder or the standard one.
DenySequences ==
    {n \o o \o <<r>> : n \in {<<>>, <<"notify">>},
                        o \in {<<>>, <<"onLimitReached">>},
                        r \in {"custom", "standard"}}

\* s is the beginning of t.
IsPrefix(s, t) == Len(s) <= Len(t) /\ SubSeq(t, 1, Len(s)) = s

\* C29, as claimed: for a request whose count exceeds the limit, the events
\* so far are the beginning of a deny sequence -- notification, then
\* onLimitReached, then the custom or the standard response -- and the
\* finished request's events are a whole one; the wrapped handler is not
\* among them.
C29_DenyPathOrder ==
    Denied
        => /\ \E d \in DenySequences : IsPrefix(req.events, d)
           /\ req.pc = "done" => req.events \in DenySequences

\* The steps a request on the deny branch can take without its notification
\* having settled.
DenyStepsWithoutNotification ==
    \/ \E o \in {"none", "ok", "raises"} : OnLimitReached(o)
    \/ \E c \in {"default", "custom", "raises"} : Respond(c)
    \/ \E h \in HandlerOutcomes : Catch(h)

\* C30, as claimed: the deny branch does not wait for the notification: while
\* the notification of a denied request is on its way and has not settled,
\* the request can go on to onLimitReached and its response.
C30_DenyResponseDoesNotWait ==
    (Denied /\ req.pc = "awaitNotify") => ENABLED DenyStepsWithoutNotification

\* C37, as claimed: a request whose count exceeds the limit never reaches
\* the wrapped handler, whatever onLimitReached and the custom responder do,
\* raising included (the notification itself not raising).
C37_DeniedNeverReachesHandler ==
    (Denied /\ req.webhook # "payloadRaises") => req.handlerCalls = 0

\* C38, as claimed: on every path (skip, allow, deny, fail-open) the wrapped
\* handler is invoked at most once per request, also when the handler raises
\* or the stamping of the headers onto its response raises.
C38_HandlerAtMostOnce == req.handlerCalls <= 1

\* C39, as claimed: the usage record handed to the notification sink (the
\* same record is built for onLimitReached and the custom responder) agrees
\* with the enforced limit: its limit is the enforced limit, its used the
\* counted value, and its remaining is max(0, limit - used), the value of
\* the X-RateLimit-Remaining header.
C39_HandedUsageConsistent ==
    (Denied /\ req.notifyCalls > 0)
        => /\ req.notifyUsage.limit = req.limit
           /\ req.notifyUsage.used = req.usage.used
           /\ req.notifyUsage.remaining = Max(0, req.limit - req.usage.used)
           /\ req.notifyUsage.remaining = req.hdrs.remaining

----------------------------------------------------------------------------
(* SpecConn: one adapter from construction to close(); the adapter is built
   either from a client, pool or database object the caller made, or from a
   connection configuration. *)

\* What the constructor can be given, per adapter family.  The memory and
\* edge adapters hold no connection.
ConnArgs(kd) ==
    CASE kd \in {"memory", "upstash", "cloudflare"} -> {"none"}
      [] kd = "drizzle" -> {"db", "cfgDb", "cfgPool", "config"}
      [] OTHER -> {"client", "config"}

\* The constructors: a recognised client (or db, or pool) is kept and
\* ownsClient is false; from a configuration the adapter creates and opens
\* its own client and ownsClient is true.
Construct(kd, arg) ==
    CASE arg = "none" -> NoConn
      [] arg = "config" ->
            [arg |-> arg, ownsClient |-> TRUE, client |-> "created",
             suppliedOpen |-> FALSE, createdOpen |-> TRUE, closed |-> FALSE]
      [] OTHER ->
            [arg |-> arg, ownsClient |-> FALSE, client |-> "supplied",
             suppliedOpen |-> TRUE, createdOpen |-> FALSE, closed |-> FALSE]

\* quit() / close() / end() issued on the client the adapter holds.
Quit(c) ==
    [c EXCEPT !.suppliedOpen = IF c.client = "supplied" THEN FALSE ELSE @,
              !.createdOpen = IF c.client = "created" THEN FALSE ELSE @]

\* A close() that ends the client whoever made it.
AdapterCloseAlways(kd, c) ==
    IF kd \in {"memory", "upstash", "cloudflare"} THEN [c EXCEPT !.closed = TRUE]
    ELSE [Quit(c) EXCEPT !.closed = TRUE]

\* close(): ends the client only when ownsClient is set; nothing to end for
\* the memory and edge adapters.
AdapterClose(kd, c) ==
    IF kd \in {"memory", "upstash", "cloudflare"} THEN [c EXCEPT !.closed = TRUE]
    ELSE IF c.ownsClient THEN [Quit(c) EXCEPT !.closed = TRUE]
    ELSE [c EXCEPT !.closed = TRUE]

\* The client the adapter works through is usable.
ClientOpen ==
    CASE conn.client = "supplied" -> conn.suppliedOpen
      [] conn.client = "created" -> conn.createdOpen
      [] OTHER -> TRUE

InitConn ==
    /\ now = 0
    /\ kind \in Kinds
    /\ windowMs = 1000
    /\ store = EmptyStore
    /\ last = NoLast
    /\ run = NoRun
    /\ proc = NoProc
    /\ opts = NoOpts
    /\ req = NoReq
    /\ served = 0
    /\ seen = NoSeen
    /\ conn \in {Construct(kind, a) : a \in ConnArgs(kind)}
    /\ route = NoRoute

\* close(): MemoryStorage also clears its map.
Close ==
    /\ ~conn.closed
    /\ conn' = AdapterClose(kind, conn)
    /\ store' = IF kind = "memory" THEN EmptyStore ELSE store
    /\ UNCHANGED <<now, kind, windowMs, last, run, proc, opts, req, served, seen, route>>

\* The callers' operations, while the client is usable.
ConnIncrement(k) == ClientOpen /\ Increment(k)
ConnDecrement(k) == ClientOpen /\ Decrement(k)
ConnReset(k) == ClientOpen /\ Reset(k)

NextConn ==
    \/ \E k \in ConcKeys : ConnIncrement(k)
    \/ \E k \in ConcKeys : ConnDecrement(k)
    \/ \E k \in ConcKeys : ConnReset(k)
    \/ \E d \in TickSteps : Tick(d)
    \/ Close

SpecConn == InitConn /\ [][NextConn]_vars

\* C13: a client, pool or database object the caller supplied is never ended
\* by the adapter, whatever operations and close() were called; close() ends
\* the connection exactly when the adapter created it itself.
C13_CloseSparesSuppliedClient ==
    /\ conn.client = "supplied" => conn.suppliedOpen
    /\ (conn.closed /\ conn.client = "created") => ~conn.createdOpen
    /\ ~conn.closed => ClientOpen

\* C13 witness: the relational adapter, built from the caller's pool, has
\* served operations and been closed, and the pool is still open.
C13_ClosedWithSuppliedPool ==
    /\ kind = "postgresql"
    /\ conn.arg = "client"
    /\ conn.closed
    /\ last.seq >= 2
    /\ conn.suppliedOpen


----------------------------------------------------------------------------
(* Option values and deepMerge *)

\* JavaScript values as the merge distinguishes them: undefined, a primitive
\* (or function) with its payload p, an array with its elements p, a plain
\* object with its fields o (field name -> value).
Undefined == [t |-> "undef", p |-> <<>>, o |-> <<>>]
Prim(x) == [t |-> "prim", p |-> x, o |-> <<>>]
List(x) == [t |-> "list", p |-> x, o |-> <<>>]
Obj(f) == [t |-> "obj", p |-> <<>>, o |-> f]
EmptyObj == Obj(<<>>)

\* isPlainObject: an object that is not null and not an array.
IsPlainObject(x) == x.t = "obj"

\* A merge that copies the source's fields over the target's without
\* descending into nested objects.
ShallowMerge(target, source) ==
    IF target.t # "obj" \/ source.t # "obj" THEN source
    ELSE Obj([key \in DOMAIN target.o \cup DOMAIN source.o |->
                IF key \in DOMAIN source.o THEN source.o[key] ELSE target.o[key]])

\* deepMerge(target, source): a missing side yields the other, an array or a
\* non-object source replaces the target, two plain objects are merged key by
\* key, recursing only where both sides hold a plain object.
RECURSIVE DeepMerge(_, _)
DeepMerge(target, source) ==
    IF target.t = "undef" THEN (IF source.t = "undef" THEN EmptyObj ELSE source)
    ELSE IF source.t = "undef" THEN target
    ELSE IF source.t = "list" THEN source
    ELSE IF ~IsPlainObject(target) \/ ~IsPlainObject(source) THEN source
    ELSE LET tgt == target.o
             src == source.o
         IN  Obj([key \in DOMAIN tgt \cup DOMAIN src |->
                    IF key \notin DOMAIN src THEN tgt[key]
                    ELSE IF src[key].t = "list" THEN src[key]
                    ELSE IF /\ IsPlainObject(src[key])
                            /\ key \in DOMAIN tgt
                            /\ IsPlainObject(tgt[key])
                         THEN DeepMerge(tgt[key], src[key])
                    ELSE src[key]])

----------------------------------------------------------------------------
(* findRouteOverride.  Paths and map keys are strings, modelled as sequences
   of characters; the override map is the sequence of its entries in
   enumeration order. *)

Star == <<"*">>
SlashStar == <<"/", "*">>

\* String.prototype.startsWith / endsWith
StartsWith(str, pre) == Len(str) >= Len(pre) /\ SubSeq(str, 1, Len(pre)) = pre
EndsWith(str, suf) ==
    Len(str) >= Len(suf) /\ SubSeq(str, Len(str) - Len(suf) + 1, Len(str)) = suf

\* A prefix that drops the trailing slash together with the star.
PrefixOfNoSlash(key) == SubSeq(key, 1, Len(key) - 2)

\* key.slice(0, -1): the pattern without its star, trailing slash kept.
PrefixOf(key) == SubSeq(key, 1, Len(key) - 1)

\* The test made on each key during the scan.
ScanMatches(key, pathname) ==
    \/ key = Star
    \/ EndsWith(key, SlashStar) /\ StartsWith(pathname, PrefixOf(key))

\* The routes option when it is not given.
NoRoutes == [defined |-> FALSE, entries |-> <<>>]

\* The keys of the map, in enumeration order.
ObjectKeys(map) == [i \in 1 .. Len(map.entries) |-> map.entries[i].key]

\* A scan that returns the last matching entry instead of the first.
ScanLast(map, pathname) ==
    LET hits == {i \in 1 .. Len(map.entries) : ScanMatches(ObjectKeys(map)[i], pathname)}
    IN  IF hits = {} THEN 0 ELSE CHOOSE i \in hits : \A j \in hits : j <= i

\* The loop over Object.keys(map): the index of the first entry that is the
\* global wildcard or a matching prefix pattern, 0 when there is none.
Scan(map, pathname) ==
    LET hits == {i \in 1 .. Len(map.entries) : ScanMatches(ObjectKeys(map)[i], pathname)}
    IN  IF hits = {} THEN 0 ELSE CHOOSE i \in hits : \A j \in hits : i <= j

\* A lookup that goes straight to the scan.
FindRouteOverrideScanOnly(map, pathname) ==
    IF ~map.defined THEN 0 ELSE Scan(map, pathname)

\* findRouteOverride(map, pathname), as the index of the entry it returns
\* (0 for undefined): an own key equal to the path first, then the scan.
FindRouteOverride(map, pathname) ==
    IF ~map.defined THEN 0
    ELSE IF \E i \in 1 .. Len(map.entries) : ObjectKeys(map)[i] = pathname
    THEN CHOOSE i \in 1 .. Len(map.entries) : ObjectKeys(map)[i] = pathname
    ELSE Scan(map, pathname)

\* The override object findRouteOverride returns.
OverrideAt(map, i) == IF i = 0 THEN Undefined ELSE map.entries[i].ov


----------------------------------------------------------------------------
(* SpecRoute: the option resolution at the head of rateLimitedHandler, for
   one request: findRouteOverride on the routes map, then deepMerge of the
   global options with the entry found. *)

MaxEntries == 3

RouteKeys ==
    { Star, SlashStar, <<"/", "a">>, <<"/", "a", "/", "*">>,
      <<"/", "a", "/", "b">>, <<"/", "a", "*">> }

Paths ==
    { <<"/", "a">>, <<"/", "a", "/">>, <<"/", "a", "/", "b">>, <<"/", "a", "b">>,
      <<"/", "b">> }

\* The global options: every field set.
GlobalOptions ==
    Obj([f \in {"limit", "windowMs"} |-> Prim(<<"global", f>>)])

\* The entries a routes map can hold for key k: an override of one field,
\* whose value names the entry.
Entries ==
    {[key |-> k, ov |-> Obj([f \in {fld} |-> Prim(k)])] :
        k \in RouteKeys, fld \in {"limit", "windowMs"}}

\* The routes maps: an object has each key once.
Maps ==
    {NoRoutes} \cup
    {[defined |-> TRUE, entries |-> m] :
        m \in {e \in UNION {[1 .. n -> Entries] : n \in 0 .. MaxEntries} :
                  \A i, j \in 1 .. Len(e) : i # j => e[i].key # e[j].key}}

InitRoute ==
    /\ now = 0
    /\ kind = "memory"
    /\ windowMs = 1000
    /\ store = EmptyStore
    /\ last = NoLast
    /\ run = NoRun
    /\ proc = NoProc
    /\ opts = NoOpts
    /\ req = NoReq
    /\ served = 0
    /\ seen = NoSeen
    /\ conn = NoConn
    /\ \E m \in Maps, p \in Paths :
         route = [pc |-> "request", global |-> GlobalOptions, map |-> m,
                  path |-> p, matched |-> 0, final |-> Undefined]

\* matchedOverride = findRouteOverride(routes, pathname);
\* finalOptions = deepMerge(globalOptions, matchedOverride)
Resolve ==
    /\ route.pc = "request"
    /\ LET i == FindRouteOverride(route.map, route.path)
       IN  route' = [route EXCEPT !.pc = "resolved", !.matched = i,
                        !.final = DeepMerge(route.global, OverrideAt(route.map, i))]
    /\ UNCHANGED <<now, kind, windowMs, store, last, run, proc, opts, req, served,
                   seen, conn>>

NextRoute == Resolve

SpecRoute == InitRoute /\ [][NextRoute]_vars

\* Two option values are the same value.
SameValue(a, b) == a.t = b.t /\ a.p = b.p /\ a.o = b.o

\* The entries of the map whose key equals the path.
ExactEntries ==
    {i \in 1 .. Len(route.map.entries) : route.map.entries[i].key = route.path}

\* C14: when the routes map has the request path as a key, the entry of that
\* key is the one selected, wherever "*" and prefix patterns stand in the
\* map, and the effective options are the global options with that entry's
\* fields replaced and nothing else changed.
C14_ExactKeyWins ==
    (route.pc = "resolved" /\ ExactEntries # {})
        => /\ route.matched \in ExactEntries
           /\ LET ov == route.map.entries[route.matched].ov.o
              IN  /\ DOMAIN route.final.o = DOMAIN route.global.o
                  /\ \A f \in DOMAIN route.final.o :
                        SameValue(route.final.o[f],
                                  IF f \in DOMAIN ov THEN ov[f] ELSE route.global.o[f])

\* C14 witness: the path /a/b is a key of the map and stands after both "*"
\* and the matching pattern /a/*; its entry is selected.
C14_ExactAfterWildcards ==
    /\ route.pc = "resolved"
    /\ route.path = <<"/", "a", "/", "b">>
    /\ Len(route.map.entries) = 3
    /\ route.map.entries[1].key = Star
    /\ route.map.entries[2].key = <<"/", "a", "/", "*">>
    /\ route.map.entries[3].key = route.path
    /\ route.matched = 3


\* A pattern K ending in "/*" covers path p: p starts with K less its star.
PatternCovers(K, p) ==
    /\ Len(K) >= 2
    /\ K[Len(K)] = "*"
    /\ K[Len(K) - 1] = "/"
    /\ Len(p) >= Len(K) - 1
    /\ \A i \in 1 .. Len(K) - 1 : p[i] = K[i]

\* The entries the scan can select for the path: "*" and covering patterns.
Candidates ==
    {i \in 1 .. Len(route.map.entries) :
        \/ route.map.entries[i].key = Star
        \/ PatternCovers(route.map.entries[i].key, route.path)}

\* C15: a selected prefix pattern covers the path (the path starts with the
\* pattern less its star, slash kept), and a pattern that covers the path
\* and is the only entry that could apply is selected; a path that no entry
\* matches gets the global options unchanged; every field the selected
\* override omits keeps its global value.
C15_PrefixPatternAppliesIffCovers ==
    route.pc = "resolved" =>
        /\ (route.matched # 0 /\ route.matched \notin ExactEntries
               /\ route.map.entries[route.matched].key # Star)
              => PatternCovers(route.map.entries[route.matched].key, route.path)
        /\ \A i \in Candidates :
              (ExactEntries = {} /\ Candidates = {i}) => route.matched = i
        /\ (ExactEntries = {} /\ Candidates = {})
              => /\ route.matched = 0
                 /\ SameValue(route.final, route.global)
        /\ route.matched # 0 =>
              \A f \in DOMAIN route.global.o :
                 f \notin DOMAIN route.map.entries[route.matched].ov.o
                    => /\ f \in DOMAIN route.final.o
                       /\ SameValue(route.final.o[f], route.global.o[f])

\* C15 witness: /a/b under the pattern /a/* (an override of limit alone):
\* limit comes from the entry, windowMs stays global.
C15_PatternSelected ==
    /\ route.pc = "resolved"
    /\ route.path = <<"/", "a", "/", "b">>
    /\ Len(route.map.entries) = 2
    /\ route.map.entries[1].key = <<"/", "a">>
    /\ route.map.entries[2].key = <<"/", "a", "/", "*">>
    /\ "limit" \in DOMAIN route.map.entries[2].ov.o
    /\ route.matched = 2
    /\ route.final.o["limit"] = Prim(<<"/", "a", "/", "*">>)
    /\ route.final.o["windowMs"] = route.global.o["windowMs"]

\* C16: when no key equals the path, the selected entry is the first, in
\* enumeration order, among "*" and the covering patterns -- whatever their
\* lengths -- and none is selected when there is no such entry.
C16_FirstInEnumerationOrder ==
    (route.pc = "resolved" /\ ExactEntries = {})
        => IF Candidates = {} THEN route.matched = 0
           ELSE /\ route.matched \in Candidates
                /\ \A j \in Candidates : route.matched <= j

\* C16 witness: /a/b with the shorter pattern /* enumerated before the
\* longer /a/* and before "*": the shorter pattern is selected.
C16_ShorterPrefixFirst ==
    /\ route.pc = "resolved"
    /\ route.path = <<"/", "a", "/", "b">>
    /\ Len(route.map.entries) = 3
    /\ route.map.entries[1].key = SlashStar
    /\ route.map.entries[2].key = <<"/", "a", "/", "*">>
    /\ route.map.entries[3].key = Star
    /\ route.matched = 1


----------------------------------------------------------------------------
(* SpecMerge: deepMerge applied to a lower layer and an override. *)

P1 == Prim(<<"p1">>)
P2 == Prim(<<"p2">>)
L1 == List(<<"e1">>)
L2 == List(<<"e2", "e1">>)

\* Nested option objects (such as webhook, with its headers object).
InnerObjects ==
    { EmptyObj,
      Obj([f \in {"url"} |-> P1]),
      Obj([f \in {"url"} |-> P2]),
      Obj([f \in {"url"} |-> L1]),
      Obj([f \in {"headers"} |-> P1]),
      Obj([f \in {"headers"} |-> Obj([g \in {"x"} |-> P1])]),
      Obj([f \in {"headers"} |-> Obj([g \in {"y"} |-> P2])]),
      Obj([f \in {"url", "headers"} |->
              IF f = "url" THEN P1 ELSE Obj([g \in {"x"} |-> P1])]) }

\* A field may also be present with the value undefined.
FieldValues == {P1, P2, L1, L2, Undefined} \cup InnerObjects

\* Option objects: any subset of the fields, each with any of the values.
OptionObjects ==
    {Obj(f) : f \in UNION {[S -> FieldValues] : S \in SUBSET {"limit", "webhook"}}}

InitMerge ==
    /\ now = 0
    /\ kind = "memory"
    /\ windowMs = 1000
    /\ store = EmptyStore
    /\ last = NoLast
    /\ run = NoRun
    /\ proc = NoProc
    /\ opts = NoOpts
    /\ req = NoReq
    /\ served = 0
    /\ seen = NoSeen
    /\ conn = NoConn
    /\ \E l \in OptionObjects, o \in OptionObjects \cup {Undefined} :
         route = [pc |-> "args", lower |-> l, override |-> o, out |-> Undefined]

\* out = deepMerge(lower, override)
Merge ==
    /\ route.pc = "args"
    /\ route' = [route EXCEPT !.pc = "merged",
                              !.out = DeepMerge(route.lower, route.override)]
    /\ UNCHANGED <<now, kind, windowMs, store, last, run, proc, opts, req, served,
                   seen, conn>>

NextMerge == Merge

SpecMerge == InitMerge /\ [][NextMerge]_vars

\* out is the merge of object l with override object o: it has the fields of
\* both; a field o does not define equals l's; a field o defines as an
\* object where l holds an object is the merge of the two; any other field o
\* defines (primitive, function, list, or object over a non-object) equals
\* o's value.
RECURSIVE IsMergeOf(_, _, _)
IsMergeOf(out, l, o) ==
    /\ out.t = "obj"
    /\ DOMAIN out.o = DOMAIN l.o \cup DOMAIN o.o
    /\ \A f \in DOMAIN out.o :
          IF f \notin DOMAIN o.o THEN out.o[f] = l.o[f]
          ELSE IF o.o[f].t = "obj" /\ f \in DOMAIN l.o /\ l.o[f].t = "obj"
          THEN IsMergeOf(out.o[f], l.o[f], o.o[f])
          ELSE out.o[f] = o.o[f]

\* C17: the merge of a lower layer with an override replaces primitive (and
\* function) fields, merges object fields key by key, recursively, with a
\* lower object, replaces list fields wholesale, and keeps every field the
\* override does not define.
C17_MergeLaw ==
    (route.pc = "merged" /\ route.override.t = "obj")
        => /\ IsMergeOf(route.out, route.lower, route.override)
           /\ \A f \in DOMAIN route.override.o :
                 route.override.o[f].t \in {"prim", "list"}
                    => route.out.o[f] = route.override.o[f]

\* C17 witness: a list replaced by a shorter list, and a webhook object
\* merged two levels deep (url kept, headers gaining a key).
C17_NestedMergeAndListReplace ==
    /\ route.pc = "merged"
    /\ route.lower = Obj([f \in {"limit", "webhook"} |->
            IF f = "limit" THEN L2
            ELSE Obj([g \in {"url", "headers"} |->
                        IF g = "url" THEN P1 ELSE Obj([h \in {"x"} |-> P1])])])
    /\ route.override = Obj([f \in {"limit", "webhook"} |->
            IF f = "limit" THEN L1
            ELSE Obj([g \in {"headers"} |-> Obj([h \in {"y"} |-> P2])])])
    /\ route.out.o["limit"] = L1
    /\ route.out.o["webhook"].o["url"] = P1
    /\ DOMAIN route.out.o["webhook"].o["headers"].o = {"x", "y"}

----------------------------------------------------------------------------
(* Further claims about the adapters, checked under SpecStore *)

\* The adapters that count in a cache key with a time-to-live through the
\* server: RedisStorage (script and MULTI/EXEC) and the edge script adapter.
CacheKinds == {"redis", "redisMulti", "upstash"}

\* C21, as claimed: on the cache adapters an increment of a key whose
\* window is live (the key exists and has a time-to-live) leaves the key's
\* expiry as it was, so the window is never extended.
C21_IncrementKeepsExpiry ==
    (/\ kind \in CacheKinds
     /\ last.op = "inc"
     /\ last.pre.present
     /\ last.pre.expireAt # NoTTL)
        => store[last.key].expireAt = last.pre.expireAt

\* C22, as claimed: on the document adapter an increment of a key whose
\* stored expireAt lies in the past, the TTL monitor not having deleted the
\* document yet, rotates the window: it returns used = 1 and the document
\* holds count 1 with a new expireAt.
C22_StaleDocumentRotates ==
    (/\ kind = "mongodb"
     /\ last.op = "inc"
     /\ last.pre.present
     /\ last.at > last.pre.expireAt)
        => /\ last.usage.used = 1
           /\ (now = last.at /\ store[last.key].present)
                 => /\ store[last.key].count = 1
                    /\ store[last.key].expireAt = last.at + windowMs

----------------------------------------------------------------------------
(* SpecPool: a pool-backed PostgresStorage.  conn holds the pool's number of
   checked-out connections and, per asynchronous activity of the adapter,
   its position, the connection it holds and its acquire / release counts.
   The activities: the constructor's warm-up and its ensureTable() (both
   started, not awaited, when the adapter creates the pool itself), and the
   caller's operations, one at a time. *)

PoolThreads == {"warm", "boot", "op"}
PoolOps == {"increment", "decrement", "reset", "getActiveKeys"}

RestThread(pc) ==
    [pc |-> pc, name |-> "none", held |-> 0, acq |-> 0, rel |-> 0, raised |-> FALSE]

\* The adapter after its constructor returned: given a Pool, nothing is in
\* flight; having created the Pool, warm-up and ensureTable are pending.
PoolConn(owns) ==
    [owns |-> owns, out |-> 0, done |-> 0,
     thr |-> [t \in PoolThreads |->
                CASE t = "warm" -> RestThread(IF owns THEN "warm" ELSE "end")
                  [] t = "boot" -> RestThread(IF owns THEN "ensureAcquire" ELSE "end")
                  [] t = "op" -> RestThread("idle")]]

\* getRawClient() on a Pool: pool.connect() hands out a PoolClient, or rejects.
GetRawClient(th, ok) ==
    IF ok THEN [th EXCEPT !.held = @ + 1, !.acq = @ + 1]
    ELSE [th EXCEPT !.raised = TRUE]

\* client.release()
Release(th) == [th EXCEPT !.held = @ - 1, !.rel = @ + 1]

\* A release placed after the query instead of in a finally block: skipped
\* when the query raised.
FinallyOnSuccess(th) == IF th.raised THEN th ELSE Release(th)

\* finally { if (release) release(); }
Finally(th) == Release(th)

\* The activity ends: an operation returns (or raises) to its caller.
Completed(c, t, th) ==
    [c EXCEPT !.thr[t] = [th EXCEPT !.pc = IF t = "op" THEN "idle" ELSE "end"],
              !.done = IF t = "op" THEN @ + 1 ELSE @,
              !.out = @ - (c.thr[t].held - th.held)]

\* The activity goes on at pc.
Goes(c, t, th, pc) ==
    [c EXCEPT !.thr[t] = [th EXCEPT !.pc = pc],
              !.out = @ - (c.thr[t].held - th.held)]

PoolFrame ==
    UNCHANGED <<now, kind, windowMs, store, last, run, proc, opts, req, served,
                seen, route>>

InitPool ==
    /\ now = 0
    /\ kind = "postgresql"
    /\ windowMs = 1000
    /\ store = EmptyStore
    /\ last = NoLast
    /\ run = NoRun
    /\ proc = NoProc
    /\ opts = NoOpts
    /\ req = NoReq
    /\ served = 0
    /\ seen = NoSeen
    /\ conn \in {PoolConn(owns) : owns \in BOOLEAN}
    /\ route = NoRoute

\* The caller starts an operation; each begins with await this.ensureTable().
PoolCall(name) ==
    /\ conn.thr["op"].pc = "idle"
    /\ conn.done < MaxOps
    /\ conn' = [conn EXCEPT !.thr["op"] =
                   [RestThread("ensureAcquire") EXCEPT !.name = name]]
    /\ PoolFrame

\* ensureTable: const client = await this.getRawClient()
EnsureAcquire(t, ok) ==
    /\ t \in {"boot", "op"}
    /\ conn.thr[t].pc = "ensureAcquire"
    /\ LET th == GetRawClient(conn.thr[t], ok)
       IN  conn' = IF ok THEN Goes(conn, t, th, "ensureQ1")
                   ELSE Completed(conn, t, th)
    /\ PoolFrame

\* ensureTable: CREATE TABLE IF NOT EXISTS
EnsureCreateTable(t, ok) ==
    /\ conn.thr[t].pc = "ensureQ1"
    /\ conn' = IF ok THEN Goes(conn, t, conn.thr[t], "ensureQ2")
               ELSE Goes(conn, t, [conn.thr[t] EXCEPT !.raised = TRUE], "ensureFinally")
    /\ PoolFrame

\* ensureTable: CREATE INDEX IF NOT EXISTS
EnsureCreateIndex(t, ok) ==
    /\ conn.thr[t].pc = "ensureQ2"
    /\ conn' = Goes(conn, t, [conn.thr[t] EXCEPT !.raised = ~ok], "ensureFinally")
    /\ PoolFrame

\* ensureTable's finally block; the operation goes on when ensureTable
\* returned and ends when it raised.
EnsureFinally(t) ==
    /\ conn.thr[t].pc = "ensureFinally"
    /\ LET th == Finally(conn.thr[t])
       IN  conn' = IF th.raised \/ t = "boot" THEN Completed(conn, t, th)
                   ELSE Goes(conn, t, th, "acquire")
    /\ PoolFrame

\* The operation's own const client = await this.getRawClient()
OpAcquire(ok) ==
    /\ conn.thr["op"].pc = "acquire"
    /\ LET th == GetRawClient(conn.thr["op"], ok)
       IN  conn' = IF ok THEN Goes(conn, "op", th, "query")
                   ELSE Completed(conn, "op", th)
    /\ PoolFrame

\* The operation's statement inside the try: it returns, or it raises (for
\* increment also when no row comes back).
OpQuery(ok) ==
    /\ conn.thr["op"].pc = "query"
    /\ conn' = Goes(conn, "op", [conn.thr["op"] EXCEPT !.raised = ~ok], "finally")
    /\ PoolFrame

\* The operation's finally block.
OpFinally ==
    /\ conn.thr["op"].pc = "finally"
    /\ conn' = Completed(conn, "op", Finally(conn.thr["op"]))
    /\ PoolFrame

\* Constructor warm-up: pool.connect().then(c => c.release()).catch(() => {})
WarmConnect(ok) ==
    /\ conn.thr["warm"].pc = "warm"
    /\ LET th == GetRawClient(conn.thr["warm"], ok)
       IN  conn' = IF ok THEN Goes(conn, "warm", th, "warmThen")
                   ELSE Completed(conn, "warm", th)
    /\ PoolFrame

WarmRelease ==
    /\ conn.thr["warm"].pc = "warmThen"
    /\ conn' = Completed(conn, "warm", Release(conn.thr["warm"]))
    /\ PoolFrame

NextPool ==
    \/ \E name \in PoolOps : PoolCall(name)
    \/ \E t \in PoolThreads, ok \in BOOLEAN : EnsureAcquire(t, ok)
    \/ \E t \in PoolThreads, ok \in BOOLEAN : EnsureCreateTable(t, ok)
    \/ \E t \in PoolThreads, ok \in BOOLEAN : EnsureCreateIndex(t, ok)
    \/ \E t \in PoolThreads : EnsureFinally(t)
    \/ \E ok \in BOOLEAN : OpAcquire(ok)
    \/ \E ok \in BOOLEAN : OpQuery(ok)
    \/ OpFinally
    \/ \E ok \in BOOLEAN : WarmConnect(ok)
    \/ WarmRelease

SpecPool == InitPool /\ [][NextPool]_vars

\* The activity is not running.
AtRest(t) == conn.thr[t].pc \in {"idle", "end"}

\* C23: on a pool-backed relational adapter every connection an activity
\* acquired is either still held by it or was released exactly once; an
\* activity that has completed, its query having succeeded or raised, holds
\* none; and when no activity is running no connection is checked out.
C23_ConnectionsReleased ==
    /\ \A t \in PoolThreads :
          /\ conn.thr[t].held \in {0, 1}
          /\ conn.thr[t].rel + conn.thr[t].held = conn.thr[t].acq
          /\ AtRest(t) => conn.thr[t].held = 0 /\ conn.thr[t].rel = conn.thr[t].acq
    /\ conn.out = conn.thr["warm"].held + conn.thr["boot"].held + conn.thr["op"].held
    /\ (\A t \in PoolThreads : AtRest(t)) => conn.out = 0

\* C23 witness: on a caller's pool, the second operation, an increment whose
\* upsert raised after ensureTable succeeded, has completed: two connections
\* acquired, two released, none checked out.
C23_RaisedQueryReleased ==
    /\ ~conn.owns
    /\ conn.done = 2
    /\ conn.thr["op"].pc = "idle"
    /\ conn.thr["op"].name = "increment"
    /\ conn.thr["op"].raised
    /\ conn.thr["op"].acq = 2
    /\ conn.thr["op"].rel = 2
    /\ conn.out = 0

----------------------------------------------------------------------------
(* SpecReply: one increment on a backend that fails or answers with any
   reply shape; proc[1] holds the reply and what increment made of it. *)

\* Counts a reply can carry.
ReplyCounts == 1 .. 2

\* The count part of a reply: no row / document / array at all, the count
\* field missing, a number, a numeric string, a string that is no number.
CountShapes ==
    {None, Nil, BadStr} \cup {Num(c) : c \in ReplyCounts} \cup {Str(c) : c \in ReplyCounts}

\* The second part of a reply: the key's PTTL for the cache adapters (-1: no
\* expiry), the stored expiry for the database adapters (in the past or ahead).
SecondShapes(kd) ==
    IF kd \in {"redis", "redisMulti", "upstash"} THEN {Num(-1), Num(500)}
    ELSE {Num(1000), Num(2000)}

\* The KV path reads the stored text: nothing, a numeric text, another text.
Replies(kd) ==
    IF kd = "cloudflare"
    THEN {Reply(c, Nil) : c \in CountShapes \ ({None} \cup {Num(c) : c \in ReplyCounts})}
    ELSE {Reply(c, x) : c \in CountShapes, x \in SecondShapes(kd)}

\* increment's result from the backend's reply, per adapter.
AdapterResult(kd, reply, w, t) ==
    CASE kd = "redis" -> RedisResult(reply, w, t)
      [] kd = "redisMulti" -> MultiResult(reply, reply.x.v, w, t)
      [] kd = "mongodb" -> MongoResult(reply, w, t)
      [] kd = "postgresql" -> PgResult(reply, w, t)
      [] kd = "drizzle" -> DrizzleResult(reply, w, t)
      [] kd = "upstash" -> UpstashResult(reply, w, t)
      [] kd = "cloudflare" -> KvResult(KvPrev(reply.c) + 1, w, t)

InitReply ==
    /\ now \in {0, 1500}
    /\ kind \in Kinds \ {"memory"}
    /\ windowMs \in Windows
    /\ store = EmptyStore
    /\ last = NoLast
    /\ run = NoRun
    /\ \E r \in Replies(kind) :
         proc = [NoProc EXCEPT ![1] = [IdleProc EXCEPT !.pc = "called", !.reply = r]]
    /\ opts = NoOpts
    /\ req = NoReq
    /\ served = 0
    /\ seen = NoSeen
    /\ conn = NoConn
    /\ route = NoRoute

ReplyFrame ==
    UNCHANGED <<now, kind, windowMs, store, last, run, opts, req, served, seen,
                conn, route>>

\* The backend call itself fails (connection error, rejected promise).
BackendFails ==
    /\ proc[1].pc = "called"
    /\ proc' = [proc EXCEPT ![1] = [@ EXCEPT !.pc = "failed", !.res = Raise]]
    /\ ReplyFrame

\* The backend answers and increment builds its result from the reply.
BackendReplies ==
    /\ proc[1].pc = "called"
    /\ proc' = [proc EXCEPT ![1] =
                  [@ EXCEPT !.pc = "replied",
                            !.res = AdapterResult(kind, proc[1].reply, windowMs, now)]]
    /\ ReplyFrame

NextReply == BackendFails \/ BackendReplies

SpecReply == InitReply /\ [][NextReply]_vars

\* The reply carries no parsable count.
NoParsableCount(reply) == reply.c.t \in {"none", "nil", "bad"}

\* C24, as claimed: increment returns a record with used >= 1 or raises; it
\* raises when the backend call fails and when the reply has no parsable
\* count (no reply content, count field missing, non-numeric value); it
\* raises for no other reason, in particular not because the stored window
\* has expired.
C24_NoSilentZero ==
    /\ proc[1].pc = "failed" => ~proc[1].res.ok
    /\ proc[1].pc = "replied"
          => /\ proc[1].res.ok => (~proc[1].res.nan /\ proc[1].res.usage.used >= 1)
             /\ NoParsableCount(proc[1].reply) <=> ~proc[1].res.ok

----------------------------------------------------------------------------
(* Further claims about concurrent callers, checked under SpecConc *)

\* The number the caller's read of the key returned (0 for a missing key).
ReadValue(p) == IF proc[p].raw.t = "str" THEN proc[p].raw.v ELSE 0

\* The callers whose write has been done.
Wrote(k) == {p \in Procs : proc[p].key = k /\ proc[p].pc \in {"executed", "done"}}

\* C25: on the put/get-only edge variant every increment writes and returns
\* the value it read plus one, whatever was written since; so two
\* increments that read the same value return the same used, and once two
\* increments of one window have read the same value the stored count is
\* lower than the number of increments performed.
C25_ReadThenBlindWrite ==
    kind = "cloudflare"
        => \A k \in ConcKeys :
              /\ \A p \in Wrote(k) :
                    /\ proc[p].reply.c.v = ReadValue(p) + 1
                    /\ proc[p].pc = "done" => proc[p].res.usage.used = ReadValue(p) + 1
              /\ (/\ run[k] > 0
                  /\ run[k] = Cardinality(Wrote(k))
                  /\ \E p, q \in Wrote(k) : p # q /\ ReadValue(p) = ReadValue(q))
                    => LET rec == Held(kind, store, now)[k]
                       IN  rec.present => rec.count < Cardinality(Wrote(k))

\* C25 witness: two increments of a new key both read nothing, both
\* returned used = 1, and the stored count is 1 after two increments.
C25_UnderCount ==
    /\ kind = "cloudflare"
    /\ proc[1].pc = "done"
    /\ proc[2].pc = "done"
    /\ proc[1].raw = Nil
    /\ proc[2].raw = Nil
    /\ proc[1].res.usage.used = 1
    /\ proc[2].res.usage.used = 1
    /\ run["k1"] = 2
    /\ Held(kind, store, now)["k1"].present
    /\ Held(kind, store, now)["k1"].count = 1

----------------------------------------------------------------------------
(* SpecDdl: a DrizzlePostgresStorage and the statements it issues.  conn
   holds the adapter's autoCreateTable and tableEnsured fields, counts of the
   statements issued so far, and each caller's position; the callers'
   operations interleave at the adapter's awaits. *)

\* What the constructor is given: a Drizzle database instance, or a
\* configuration holding a db, a pool (or client), or connection settings.
DrizzleArgs == {"db", "cfgDb", "cfgPool", "config"}

\* The configuration's autoCreateTable option; a database instance passed
\* directly carries none.
AutoCreateOptions(arg) == IF arg = "db" THEN {"unset"} ELSE {"unset", "true", "false"}

\* A constructor that defaults autoCreateTable to true whatever it is given.
AutoCreateTableDefaultOn(arg, opt) == opt # "false"

\* The constructor's autoCreateTable: false for a database instance,
\* cfg.autoCreateTable ?? false for cfg.db, cfg.autoCreateTable ?? true otherwise.
AutoCreateTable(arg, opt) ==
    CASE arg = "db" -> FALSE
      [] arg = "cfgDb" -> opt = "true"
      [] OTHER -> opt # "false"

DrizzleOps == {"increment", "decrement", "reset", "getActiveKeys"}

DrizzleConn(arg, opt) ==
    [arg |-> arg, opt |-> opt, autoCreateTable |-> AutoCreateTable(arg, opt),
     tableEnsured |-> FALSE, tables |-> 0, indexes |-> 0, upserts |-> 0,
     atFirstUpsert |-> {}, done |-> 0,
     thr |-> [p \in Procs |-> [pc |-> "idle", name |-> "none"]]]

InitDdl ==
    /\ now = 0
    /\ kind = "drizzle"
    /\ windowMs = 1000
    /\ store = EmptyStore
    /\ last = NoLast
    /\ run = NoRun
    /\ proc = NoProc
    /\ opts = NoOpts
    /\ req = NoReq
    /\ served = 0
    /\ seen = NoSeen
    /\ \E arg \in DrizzleArgs : \E opt \in AutoCreateOptions(arg) :
         conn = DrizzleConn(arg, opt)
    /\ route = NoRoute

\* A caller starts an operation; each begins with await this.ensureTable().
DrizzleCall(p, name) ==
    /\ conn.thr[p].pc = "idle"
    /\ conn.done < MaxOps
    /\ conn' = [conn EXCEPT !.thr[p] = [pc |-> "ensure", name |-> name]]
    /\ PoolFrame

\* ensureTable: if (!this.autoCreateTable || this.tableEnsured) return
EnsureCheck(p) ==
    /\ conn.thr[p].pc = "ensure"
    /\ conn' = [conn EXCEPT !.thr[p].pc =
                   IF ~conn.autoCreateTable \/ conn.tableEnsured
                   THEN "statement" ELSE "createTable"]
    /\ PoolFrame

\* ensureTable: CREATE TABLE IF NOT EXISTS; an error is caught and
\* tableEnsured set all the same.
CreateTable(p, ok) ==
    /\ conn.thr[p].pc = "createTable"
    /\ conn' = [conn EXCEPT !.tables = @ + 1,
                            !.tableEnsured = IF ok THEN @ ELSE TRUE,
                            !.thr[p].pc = IF ok THEN "createIndex" ELSE "statement"]
    /\ PoolFrame

\* ensureTable: CREATE INDEX IF NOT EXISTS, then tableEnsured = true.
CreateIndex(p, ok) ==
    /\ conn.thr[p].pc = "createIndex"
    /\ conn' = [conn EXCEPT !.indexes = @ + 1,
                            !.tableEnsured = TRUE,
                            !.thr[p].pc = "statement"]
    /\ PoolFrame

\* The operation's own statement: the counter upsert for increment, an
\* UPDATE, DELETE or SELECT for the others.
Statement(p) ==
    /\ conn.thr[p].pc = "statement"
    /\ LET upsert == conn.thr[p].name = "increment"
       IN  conn' = [conn EXCEPT
                      !.upserts = IF upsert THEN @ + 1 ELSE @,
                      !.atFirstUpsert = IF upsert /\ conn.upserts = 0
                                        THEN {conn.tables} ELSE @,
                      !.done = @ + 1,
                      !.thr[p].pc = "idle"]
    /\ PoolFrame

NextDdl ==
    \/ \E p \in Procs, name \in DrizzleOps : DrizzleCall(p, name)
    \/ \E p \in Procs : EnsureCheck(p)
    \/ \E p \in Procs, ok \in BOOLEAN : CreateTable(p, ok)
    \/ \E p \in Procs, ok \in BOOLEAN : CreateIndex(p, ok)
    \/ \E p \in Procs : Statement(p)

SpecDdl == InitDdl /\ [][NextDdl]_vars

\* Table auto-creation is in effect: the adapter was not given a database
\* instance directly, and autoCreateTable is set or defaults to true.
AutoCreationInEffect ==
    /\ conn.arg # "db"
    /\ conn.opt = "true" \/ (conn.opt = "unset" /\ conn.arg # "cfgDb")

\* C27: the Drizzle adapter issues CREATE TABLE / CREATE INDEX only when
\* table auto-creation is in effect -- built from a database instance it
\* never issues any -- and, when auto-creation is in effect, a CREATE TABLE
\* has been issued before the first counter upsert.
C27_DdlOnlyWithAutoCreate ==
    /\ ~AutoCreationInEffect => (conn.tables = 0 /\ conn.indexes = 0)
    /\ conn.arg = "db" => (conn.tables = 0 /\ conn.indexes = 0)
    /\ AutoCreationInEffect => \A n \in conn.atFirstUpsert : n >= 1

\* C27 witness: built from the caller's pool with autoCreateTable true, two
\* increments ran concurrently: the table was created before the first
\* upsert, and both upserts are done.
C27_PoolTableBeforeUpsert ==
    /\ conn.arg = "cfgPool"
    /\ conn.opt = "true"
    /\ conn.upserts = 2
    /\ conn.tables = 2
    /\ conn.atFirstUpsert = {2}

----------------------------------------------------------------------------
(* SpecFlight: several requests in flight at once in the handler returned by
   withRateLimit, all deriving the same key under one static limit; their
   steps interleave at the awaits.  proc holds each request's position, the
   storage object built for it, and what became of it. *)

\* The storage kinds of withRateLimit whose increment is atomic.
FlightKinds == PipelineKinds \ {"cloudflare"}

FlightKey == "k1"

NoFlight ==
    [pc |-> "idle", own |-> EmptyStore, used |-> 0, handlerCalls |-> 0,
     outcome |-> "pending"]

InitFlight ==
    /\ now = 0
    /\ kind \in FlightKinds
    /\ windowMs \in Windows
    /\ store = EmptyStore
    /\ last = NoLast
    /\ run = NoRun
    /\ proc = [p \in Procs |-> NoFlight]
    /\ opts \in [configured : {TRUE}, limit : Limits]
    /\ req = NoReq
    /\ served = 0
    /\ seen = NoSeen
    /\ conn = NoConn
    /\ route = NoRoute

FlightFrame ==
    UNCHANGED <<now, kind, windowMs, last, run, opts, req, served, seen, conn, route>>

\* A request arrives; its options are resolved.
Arrive(p) ==
    /\ proc[p].pc = "idle"
    /\ proc' = [proc EXCEPT ![p].pc = "storage"]
    /\ UNCHANGED store
    /\ FlightFrame

\* Storage initialisation for this request: new MemoryStorage() is an empty
\* map of its own; the other kinds build a client of the shared backend.
NewStorage(p) ==
    /\ proc[p].pc = "storage"
    /\ proc' = [proc EXCEPT ![p].pc = "count", ![p].own = EmptyStore]
    /\ UNCHANGED store
    /\ FlightFrame

\* storage.increment(key, windowMs) on the request's storage object, then
\* the decision.
CountInFlight(p) ==
    /\ proc[p].pc = "count"
    /\ LET mine == IF kind = "memory" THEN proc[p].own ELSE store
           r == AdapterIncrement(kind, mine, FlightKey, windowMs, now)
       IN  /\ store' = IF kind = "memory" THEN store ELSE r.store
           /\ proc' = [proc EXCEPT
                         ![p].own = IF kind = "memory" THEN r.store ELSE @,
                         ![p].used = r.res.usage.used,
                         ![p].pc = IF r.res.usage.used > opts.limit
                                   THEN "deny" ELSE "allow"]
    /\ FlightFrame

\* Allow branch: the wrapped handler and the headers; when the handler or
\* the stamping raises, the catch clause calls the handler once more.
AllowInFlight(p, h) ==
    /\ proc[p].pc = "allow"
    /\ proc' = [proc EXCEPT ![p].pc = "done",
                            ![p].handlerCalls = IF h = "ok" THEN 1 ELSE 2,
                            ![p].outcome = "handler"]
    /\ UNCHANGED store
    /\ FlightFrame

\* Deny branch: notification, onLimitReached and the responder.  When all
\* return, the custom or the standard deny response is returned; when one of
\* them raises, the catch clause calls the wrapped handler.
DenyInFlight(p, raises) ==
    /\ proc[p].pc = "deny"
    /\ proc' = [proc EXCEPT ![p].pc = "done",
                            ![p].handlerCalls = IF raises THEN 1 ELSE 0,
                            ![p].outcome = IF raises THEN "handler" ELSE "deny"]
    /\ UNCHANGED store
    /\ FlightFrame

NextFlight ==
    \/ \E p \in Procs : Arrive(p)
    \/ \E p \in Procs : NewStorage(p)
    \/ \E p \in Procs : CountInFlight(p)
    \/ \E p \in Procs, h \in AllowOutcomes : AllowInFlight(p, h)
    \/ \E p \in Procs, raises \in BOOLEAN : DenyInFlight(p, raises)

SpecFlight == InitFlight /\ [][NextFlight]_vars

\* The requests for which the wrapped handler was invoked.
Handled == {p \in Procs : proc[p].handlerCalls > 0}

\* C28, as claimed: of the requests in flight on one key in one window, the
\* wrapped handler is invoked for at most limit of them, and every finished
\* request it was not invoked for received a deny response.
C28_AtMostLimitHandled ==
    /\ Cardinality(Handled) <= opts.limit
    /\ \A p \in Procs :
          (proc[p].pc = "done" /\ p \notin Handled) => proc[p].outcome = "deny"

----------------------------------------------------------------------------
(* Claims about the put/get-only edge variant and the in-process adapter,
   checked under SpecStore *)

\* C31, as claimed: on the Cloudflare KV path the window is fixed: an
\* increment of a key whose window is live leaves the key's expiry where the
\* increment that created the window put it (so the counter rotates once
\* windowMs has elapsed since then), and a decrement of a live key neither
\* removes nor moves its expiry.
C31_KvWindowFixed ==
    (/\ kind = "cloudflare"
     /\ last.op \in {"inc", "dec"}
     /\ last.pre.present
     /\ last.pre.expireAt # NoTTL)
        => /\ store[last.key].present
           /\ store[last.key].expireAt = last.pre.expireAt

\* The state right after a call of the in-process adapter's increment.
SweptAfterIncrement ==
    (kind = "memory" /\ last.op = "inc")
        => /\ \A k \in Keys : store[k].present => store[k].expireAt > last.at
           /\ store[last.key].present
           /\ store[last.key].count >= 1
           /\ store[last.key].expireAt > last.at

\* A step that is a call of decrement or reset.
DecrementOrResetStep ==
    /\ last'.seq = last.seq + 1
    /\ last'.op \in {"dec", "reset"}

\* C35: on the in-process adapter, right after every increment the map holds
\* no entry whose deadline is <= the time of the call, and the entry of the
\* incremented key has count >= 1 and a deadline later than that time;
\* decrement and reset never add an entry.
C35_SweepInvariant ==
    /\ []SweptAfterIncrement
    /\ [][(kind = "memory" /\ DecrementOrResetStep)
            => \A k \in Keys : store'[k].present => store[k].present]_vars

\* C35 witness: the second call is an increment of k1 that found the entry
\* of k2, created by the first call, past its deadline and evicted it.
C35_OtherKeySwept ==
    /\ kind = "memory"
    /\ last.seq = 2
    /\ last.op = "inc"
    /\ last.key = "k1"
    /\ run["k2"] = 1
    /\ ~store["k2"].present
    /\ store["k1"].count = 1

----------------------------------------------------------------------------
(* SpecDecr: one counter of the distributed cache shared by several callers
   that increment and decrement it; the commands of a decrement interleave
   with the other callers' commands at its awaits.  proc holds each caller's
   position in decrement and the value it read; served counts the calls. *)

DecrKey == "k1"

NoDecr == [pc |-> "idle", num |-> 0]

InitDecr ==
    /\ now = 0
    /\ kind \in CacheKinds
    /\ windowMs \in Windows
    /\ store = EmptyStore
    /\ last = NoLast
    /\ run = NoRun
    /\ proc = [p \in Procs |-> NoDecr]
    /\ opts = NoOpts
    /\ req = NoReq
    /\ served = 0
    /\ seen = NoSeen
    /\ conn = NoConn
    /\ route = NoRoute

DecrFrame ==
    UNCHANGED <<now, kind, windowMs, last, run, opts, req, served, seen, conn, route>>

\* The server's DECR: a missing key counts as 0 and is created, without a
\* time-to-live, holding -1.
RedisDecrCommand(s, k, t) ==
    LET s0 == Expire(s, t)
    IN  IF s0[k].present
        THEN [s0 EXCEPT ![k] = Rec(s0[k].count - 1, s0[k].expireAt)]
        ELSE [s0 EXCEPT ![k] = Rec(-1, NoTTL)]

\* increment(key, windowMs): the script or the MULTI/EXEC transaction runs on
\* the server as one command.
IncrementCall(p) ==
    /\ proc[p].pc = "idle"
    /\ served < MaxOps
    /\ store' = IF kind = "redisMulti"
                THEN MultiIncr(store, DecrKey, windowMs, now).store
                ELSE LuaIncr(store, DecrKey, windowMs, now).store
    /\ served' = served + 1
    /\ UNCHANGED <<now, kind, windowMs, last, run, proc, opts, req, seen, conn, route>>

\* decrement(key) is called.
DecrementCall(p) ==
    /\ proc[p].pc = "idle"
    /\ served < MaxOps
    /\ proc' = [proc EXCEPT ![p].pc = IF kind = "redisMulti" THEN "exists" ELSE "eval"]
    /\ served' = served + 1
    /\ UNCHANGED <<now, kind, windowMs, store, last, run, opts, req, seen, conn, route>>

\* The script adapters: eval(decrScript) is one command on the server.
DecrementEval(p) ==
    /\ proc[p].pc = "eval"
    /\ store' = LuaDecr(store, DecrKey, now)
    /\ proc' = [proc EXCEPT ![p] = NoDecr]
    /\ DecrFrame

\* The MULTI/EXEC adapter: exists(key), return when the key is missing.
DecrementExists(p) ==
    /\ proc[p].pc = "exists"
    /\ proc' = [proc EXCEPT ![p].pc =
                   IF Expire(store, now)[DecrKey].present THEN "get" ELSE "idle"]
    /\ UNCHANGED store
    /\ DecrFrame

\* ... then get(key): num is the value read, 0 for a missing key; the
\* decrement goes on to DECR only when num > 0.
DecrementGet(p) ==
    /\ proc[p].pc = "get"
    /\ LET s0 == Expire(store, now)
           num == IF s0[DecrKey].present THEN s0[DecrKey].count ELSE 0
       IN  proc' = [proc EXCEPT ![p] = IF num > 0 THEN [pc |-> "decr", num |-> num]
                                        ELSE NoDecr]
    /\ UNCHANGED store
    /\ DecrFrame

\* ... then decr(key), whatever the key holds by now.
DecrementDecr(p) ==
    /\ proc[p].pc = "decr"
    /\ store' = RedisDecrCommand(store, DecrKey, now)
    /\ proc' = [proc EXCEPT ![p] = NoDecr]
    /\ DecrFrame

NextDecr ==
    \/ \E p \in Procs : IncrementCall(p)
    \/ \E p \in Procs : DecrementCall(p)
    \/ \E p \in Procs : DecrementEval(p)
    \/ \E p \in Procs : DecrementExists(p)
    \/ \E p \in Procs : DecrementGet(p)
    \/ \E p \in Procs : DecrementDecr(p)
    \/ \E d \in TickSteps : Tick(d)

SpecDecr == InitDecr /\ [][NextDecr]_vars

\* C32, as claimed: on the distributed-cache adapters the stored count is
\* never negative, in any interleaving of decrements and increments of one
\* key.
C32_StoredCountNeverNegative ==
    kind \in CacheKinds => \A k \in Keys : store[k].present => store[k].count >= 0

----------------------------------------------------------------------------
(* Claims about interleaved increments, checked under SpecConc *)

\* C33, as claimed: the reset returned by an increment is the expiry, in
\* whole seconds, of the window in which the returned used was counted, in
\* every interleaving with other increments and with the passing of time.
C33_ResetOfCountedWindow ==
    \A p \in Procs :
        (proc[p].pc = "done" /\ proc[p].res.ok)
            => proc[p].res.usage.reset = FloorSec(proc[p].counted)

----------------------------------------------------------------------------
(* SpecHeap: option resolution over objects that have identity.  route.heap
   maps an address to the object stored there: the global options (with
   their nested webhook object) and the override objects of the routes map
   are built once by the caller of withRateLimit; every request resolves its
   effective options with findRouteOverride and deepMerge, which may build
   new objects.  The objects built for a request are garbage once the next
   request starts. *)

TopFields == {"limit", "webhook"}
NestedFields == {"url", "method"}
ObjectFields == TopFields \cup NestedFields

\* The value of a field: missing, a primitive, or a reference to an object.
NoCell == [t |-> "none", v |-> 0]
PrimCell(v) == [t |-> "prim", v |-> v]
RefCell(a) == [t |-> "ref", v |-> a]

NoFields == [f \in ObjectFields |-> NoCell]
NoObject == [live |-> FALSE, f |-> NoFields]
Object(fs) == [live |-> TRUE, f |-> fs]

\* Addresses: the global options and their webhook object, two override
\* objects each with a webhook object of its own, and the objects a request
\* builds.
GlobalAddr == 1
GlobalWebhookAddr == 2
OverrideAddr(i) == 1 + 2 * i
OverrideWebhookAddr(i) == 2 + 2 * i
BaseAddrs == 1 .. 6
RequestAddrs == 7 .. 8
Addrs == BaseAddrs \cup RequestAddrs

HeapKeys == {Star, <<"/", "a">>, <<"/", "a", "/", "*">>}
HeapPaths == {<<"/", "a">>, <<"/", "a", "/", "b">>, <<"/", "b">>}

\* What an override sets: a limit, a webhook object, or both.
OverrideShapes == {"limit", "webhook", "both"}

\* The objects of override number i of shape sh.
OverrideObjects(i, sh) ==
    [a \in {OverrideAddr(i), OverrideWebhookAddr(i)} |->
        IF a = OverrideAddr(i)
        THEN Object([NoFields EXCEPT
                 !["limit"] = IF sh \in {"limit", "both"} THEN PrimCell(10 * i)
                              ELSE NoCell,
                 !["webhook"] = IF sh \in {"webhook", "both"}
                                THEN RefCell(OverrideWebhookAddr(i)) ELSE NoCell])
        ELSE IF sh \in {"webhook", "both"}
             THEN Object([NoFields EXCEPT !["url"] = PrimCell(10 * i + 1)])
             ELSE NoObject]

\* withRateLimit(options): the heap holding the global options and the
\* override objects of a routes map with the given keys and shapes.
InitialHeap(keys, shapes) ==
    [a \in Addrs |->
        IF a = GlobalAddr
        THEN Object([NoFields EXCEPT !["limit"] = PrimCell(100),
                                     !["webhook"] = RefCell(GlobalWebhookAddr)])
        ELSE IF a = GlobalWebhookAddr
        THEN Object([NoFields EXCEPT !["url"] = PrimCell(1), !["method"] = PrimCell(2)])
        ELSE IF \E i \in 1 .. Len(keys) : a \in {OverrideAddr(i), OverrideWebhookAddr(i)}
        THEN LET i == CHOOSE i \in 1 .. Len(keys) :
                          a \in {OverrideAddr(i), OverrideWebhookAddr(i)}
             IN  OverrideObjects(i, shapes[i])[a]
        ELSE NoObject]

\* The routes maps: up to two keys, each key once, each with its override.
HeapMaps ==
    {[defined |-> Len(ks) > 0,
      entries |-> [i \in 1 .. Len(ks) |-> [key |-> ks[i], ov |-> OverrideAddr(i)]]] :
        ks \in {s \in UNION {[1 .. n -> HeapKeys] : n \in 0 .. 2} :
                   \A i, j \in 1 .. Len(s) : i # j => s[i] # s[j]}}

\* An object written into, field by field, where it stands.
OutObjectInPlace(h, t) == [heap |-> h, out |-> t]

\* const out = { ...target }: a new object holding target's fields; nested
\* objects are shared with target, not copied.
OutObject(h, t) ==
    LET a == CHOOSE a \in RequestAddrs :
                 ~h[a].live /\ \A b \in RequestAddrs : ~h[b].live => a <= b
    IN  [heap |-> [h EXCEPT ![a] = Object(h[t].f)], out |-> a]

\* Object.keys(src), in a fixed order.
FieldOrder == <<"limit", "webhook", "url", "method">>

RECURSIVE DeepMergeHeap(_, _, _)
RECURSIVE MergeKeys(_, _, _, _, _)

\* The loop of deepMerge over the keys of source from position n on:
\* out[key] = deepMerge(t, s) when both values are plain objects, else
\* out[key] = s.
MergeKeys(h, out, t, s, n) ==
    IF n > Len(FieldOrder) THEN h
    ELSE LET key == FieldOrder[n]
             sv == h[s].f[key]
             tv == h[t].f[key]
         IN  IF sv.t = "none" THEN MergeKeys(h, out, t, s, n + 1)
             ELSE IF sv.t = "ref" /\ tv.t = "ref"
             THEN LET r == DeepMergeHeap(h, tv.v, sv.v)
                  IN  MergeKeys([r.heap EXCEPT ![out].f[key] = RefCell(r.out)],
                                out, t, s, n + 1)
             ELSE MergeKeys([h EXCEPT ![out].f[key] = sv], out, t, s, n + 1)

\* deepMerge(target, source) on the heap; source 0 is undefined, and then
\* target itself is returned.
DeepMergeHeap(h, t, s) ==
    IF s = 0 THEN [heap |-> h, out |-> t]
    ELSE LET o == OutObject(h, t)
         IN  [heap |-> MergeKeys(o.heap, o.out, t, s, 1), out |-> o.out]

\* What an options object says, nested objects read through.
OptionsValue(h, a) ==
    [f \in TopFields |->
        IF h[a].f[f].t = "ref"
        THEN [t |-> "obj", v |-> 0, o |-> h[h[a].f[f].v].f]
        ELSE [t |-> h[a].f[f].t, v |-> h[a].f[f].v, o |-> NoFields]]

NoOptionsValue == [f \in TopFields |-> [t |-> "none", v |-> 0, o |-> NoFields]]

InitHeap ==
    /\ now = 0
    /\ kind = "memory"
    /\ windowMs = 1000
    /\ store = EmptyStore
    /\ last = NoLast
    /\ run = NoRun
    /\ proc = NoProc
    /\ opts = NoOpts
    /\ req = NoReq
    /\ served = 0
    /\ seen = NoSeen
    /\ conn = NoConn
    /\ \E m \in HeapMaps :
       \E shapes \in [1 .. Len(m.entries) -> OverrideShapes] :
         LET h == InitialHeap(ObjectKeys(m), shapes)
         IN  route = [pc |-> "idle", heap |-> h, heap0 |-> h, map |-> m,
                      path |-> <<"/", "a">>, matched |-> 0, final |-> GlobalAddr,
                      first |-> [p \in HeapPaths |->
                                    [seen |-> 0, value |-> NoOptionsValue]]]

\* A request for path p: matchedOverride = findRouteOverride(routes, p);
\* finalOptions = deepMerge(globalOptions, matchedOverride).  first keeps,
\* for each path, how often it was resolved and what its first resolution
\* gave.
ResolveOnHeap(p) ==
    /\ served < MaxOps
    /\ LET h0 == [a \in Addrs |-> IF a \in RequestAddrs THEN NoObject
                                  ELSE route.heap[a]]
           i == FindRouteOverride(route.map, p)
           r == DeepMergeHeap(h0, GlobalAddr, IF i = 0 THEN 0 ELSE route.map.entries[i].ov)
       IN  route' = [route EXCEPT
                        !.pc = "resolved", !.heap = r.heap, !.path = p,
                        !.matched = i, !.final = r.out,
                        !.first[p] = IF @.seen = 0
                                     THEN [seen |-> 1, value |-> OptionsValue(r.heap, r.out)]
                                     ELSE [@ EXCEPT !.seen = 2]]
    /\ served' = served + 1
    /\ UNCHANGED <<now, kind, windowMs, store, last, run, proc, opts, req, seen, conn>>

NextHeap == \E p \in HeapPaths : ResolveOnHeap(p)

SpecHeap == InitHeap /\ [][NextHeap]_vars

\* C34: resolving the effective options leaves the global options object,
\* the override objects and their nested objects as withRateLimit received
\* them, and resolving a path again, after requests to other paths, gives
\* options equal to those of its first resolution.
C34_ResolutionHasNoSideEffect ==
    /\ \A a \in BaseAddrs : route.heap[a] = route.heap0[a]
    /\ route.pc = "resolved"
          => OptionsValue(route.heap, route.final) = route.first[route.path].value

\* C34 witness: /a/b is resolved again after a request to another path; its
\* options were merged from the global options and an override with a
\* webhook object, into objects built for the request.
C34_ResolvedAgainAfterOtherPath ==
    /\ route.pc = "resolved"
    /\ route.path = <<"/", "a", "/", "b">>
    /\ route.first[route.path].seen = 2
    /\ route.first[<<"/", "b">>].seen > 0
    /\ route.matched > 0
    /\ route.final \in RequestAddrs
    /\ route.heap[route.final].f["webhook"].t = "ref"
    /\ route.heap[route.final].f["webhook"].v \in RequestAddrs
    /\ route.heap[route.heap[route.final].f["webhook"].v].f["method"] = PrimCell(2)

----------------------------------------------------------------------------
(* SpecExtract: the two reply normalisation helpers applied to one backend
   reply of any shape.  proc[1] holds the reply and what each helper made of
   it. *)

\* What a reply can hold as a scalar, an array element or a wrapper value.
ScalarShapes ==
    {Nil, BadStr, EmptyStr} \cup {Num(c) : c \in ReplyCounts} \cup {Str(c) : c \in ReplyCounts}

\* Elements of arrays and wrapper objects, up to two.
ElementLists == UNION {[1 .. n -> ScalarShapes] : n \in 0 .. 2}

ReplyShapes ==
    {[t |-> x.t, v |-> x.v, e |-> <<>>] : x \in ScalarShapes}
        \cup {Arr(e) : e \in ElementLists}
        \cup {Wrap(e) : e \in ElementLists \ {<<>>}}

NotExtracted == [done |-> FALSE, ok |-> FALSE, v |-> 0]
Extracted(x) == [done |-> TRUE, ok |-> x.ok, v |-> x.v]

InitExtract ==
    /\ now = 0
    /\ kind = "redis"
    /\ windowMs = 1000
    /\ store = EmptyStore
    /\ last = NoLast
    /\ run = NoRun
    /\ \E r \in ReplyShapes :
         proc = <<[reply |-> r, redis |-> NotExtracted, edge |-> NotExtracted]>>
    /\ opts = NoOpts
    /\ req = NoReq
    /\ served = 0
    /\ seen = NoSeen
    /\ conn = NoConn
    /\ route = NoRoute

\* RedisStorage.extractNumberFromReply(reply)
ExtractRedis ==
    /\ ~proc[1].redis.done
    /\ proc' = [proc EXCEPT ![1].redis = Extracted(ExtractNumberFromReply(proc[1].reply))]
    /\ ReplyFrame

\* EdgeStorage.extractNumber(reply)
ExtractEdge ==
    /\ ~proc[1].edge.done
    /\ proc' = [proc EXCEPT ![1].edge = Extracted(ExtractNumber(proc[1].reply))]
    /\ ReplyFrame

NextExtract == ExtractRedis \/ ExtractEdge

SpecExtract == InitExtract /\ [][NextExtract]_vars

\* A value that is a number or a string spelling one.
IsNumeric(x) == x.t \in {"num", "str"}

\* The reply carries a number: it is one, or it is an array or a wrapper
\* object with a numeric element or value.
CarriesNumber(r) ==
    \/ IsNumeric(r)
    \/ r.t \in {"arr", "obj"} /\ \E i \in 1 .. Len(r.e) : IsNumeric(r.e[i])

\* The number carried: the reply itself, or its first numeric element.
CarriedNumber(r) ==
    IF IsNumeric(r) THEN r.v
    ELSE r.e[CHOOSE i \in 1 .. Len(r.e) :
                 IsNumeric(r.e[i]) /\ \A j \in 1 .. i - 1 : ~IsNumeric(r.e[j])].v

\* C36, as claimed: each helper returns the number carried by the reply for
\* every accepted shape (number, numeric string, array with a numeric
\* element, wrapper object holding a numeric value) and raises on a reply
\* that is empty or carries no number; the two helpers give the same result
\* on every reply.
C36_ReplyNormalisation ==
    (proc[1].redis.done /\ proc[1].edge.done)
        => LET r == proc[1].reply
           IN  /\ CarriesNumber(r)
                    => /\ proc[1].redis.ok /\ proc[1].redis.v = CarriedNumber(r)
                       /\ proc[1].edge.ok /\ proc[1].edge.v = CarriedNumber(r)
               /\ ~CarriesNumber(r) => (~proc[1].redis.ok /\ ~proc[1].edge.ok)
               /\ proc[1].redis = proc[1].edge

----------------------------------------------------------------------------
(* SpecKey: requests whose key is derived from their headers and path (or by
   a configured keyGenerator) and then used for one adapter operation.
   Strings are sequences of characters.  route holds the last request, the
   key derived for it, the backend key that stands for each derived key, and
   the stored counters as they were before the operation; served counts the
   requests. *)

\* req.headers.get(name): null for an absent header.
Absent == [present |-> FALSE, v |-> <<>>]
Header(v) == [present |-> TRUE, v |-> v]

\* JavaScript truthiness of a header value: null and "" are falsy.
Truthy(h) == h.present /\ Len(h.v) > 0

\* s.split(",")[0]: the characters before the first comma.
SplitFirst(s) ==
    IF \E i \in 1 .. Len(s) : s[i] = ","
    THEN SubSeq(s, 1, (CHOOSE i \in 1 .. Len(s) :
                          s[i] = "," /\ \A j \in 1 .. i - 1 : s[j] # ",") - 1)
    ELSE s

RECURSIVE Trim(_)
\* s.trim(): white space stripped at both ends.
Trim(s) ==
    IF Len(s) = 0 THEN s
    ELSE IF s[1] = " " THEN Trim(SubSeq(s, 2, Len(s)))
    ELSE IF s[Len(s)] = " " THEN Trim(SubSeq(s, 1, Len(s) - 1))
    ELSE s

Unknown == <<"unknown">>

\* getClientIp(req)
GetClientIp(r) ==
    IF Truthy(r.xff) THEN Trim(SplitFirst(r.xff.v))
    ELSE IF Truthy(r.real) THEN r.real.v
    ELSE IF Truthy(r.client) THEN r.client.v
    ELSE Unknown

\* A default key made of the address alone.
DefaultKeyAddressOnly(r) == GetClientIp(r)

\* `${getClientIp(req)}-${req.nextUrl.pathname}`
DefaultKey(r) == GetClientIp(r) \o <<"-">> \o r.path

\* A configured keyGenerator: here one that keys on the request method.
KeyGenerator(r) == <<"m", r.method>>

\* finalOptions.keyGenerator ? finalOptions.keyGenerator(req) : default key
DerivedKey(r) == IF r.gen = "custom" THEN KeyGenerator(r) ELSE DefaultKey(r)

Request(xff, real, client, path, method, gen) ==
    [xff |-> xff, real |-> real, client |-> client, path |-> path,
     method |-> method, gen |-> gen]

PathX == <<"/", "x">>
PathY == <<"/", "y">>

\* The requests: every way the address is found (one forwarded entry, a
\* list with spaces, an empty first entry, a blank header, the fallbacks,
\* nothing at all), a second path, a second method, and a keyGenerator.
KeyRequests ==
    { Request(Header(<<"a">>), Absent, Absent, PathX, "GET", "default"),
      Request(Header(<<" ", "a", " ", ",", "b">>), Header(<<"c">>), Absent, PathX, "GET", "default"),
      Request(Header(<<",", "a">>), Header(<<"c">>), Absent, PathX, "GET", "default"),
      Request(Header(<<" ">>), Absent, Header(<<"d">>), PathX, "GET", "default"),
      Request(Absent, Header(<<"c">>), Header(<<"d">>), PathX, "GET", "default"),
      Request(Header(<<>>), Header(<<>>), Header(<<"d">>), PathX, "GET", "default"),
      Request(Absent, Absent, Header(<<>>), PathX, "GET", "default"),
      Request(Header(<<"a">>), Absent, Absent, PathY, "GET", "default"),
      Request(Header(<<"a">>), Absent, Absent, PathX, "POST", "default"),
      Request(Header(<<"a">>), Absent, Absent, PathX, "GET", "custom"),
      Request(Header(<<"b">>), Absent, Absent, PathY, "POST", "custom") }

NoKeyRequest == Request(Absent, Absent, Absent, <<>>, "GET", "default")

\* The backend key that stands for derived key: the one already standing
\* for it, else the first one free; none when both stand for other keys.
SlotsFor(slots, key) ==
    IF \E k \in Keys : slots[k] = key THEN {k \in Keys : slots[k] = key}
    ELSE IF slots["k1"] = <<>> THEN {"k1"}
    ELSE IF slots["k2"] = <<>> THEN {"k2"}
    ELSE {}

AdapterOps == {"inc", "dec", "reset"}

\* One adapter operation on key k.
StoreAfter(op, k) ==
    CASE op = "inc" -> AdapterIncrement(kind, store, k, windowMs, now).store
      [] op = "dec" -> AdapterDecrement(kind, store, k, now)
      [] op = "reset" -> AdapterReset(kind, store, k, now)

InitKey ==
    /\ now = 0
    /\ kind \in PipelineKinds
    /\ windowMs = 1000
    /\ store = EmptyStore
    /\ last = NoLast
    /\ run = NoRun
    /\ proc = NoProc
    /\ opts = NoOpts
    /\ req = NoReq
    /\ served = 0
    /\ seen = NoSeen
    /\ conn = NoConn
    /\ route = [pc |-> "idle", request |-> NoKeyRequest, key |-> <<>>, op |-> "inc",
                slot |-> "k1", slots |-> [k \in Keys |-> <<>>], pre |-> EmptyStore,
                at |-> 0]

\* A request arrives, its key is derived, and the adapter is called with it.
KeyedRequest(r, op) ==
    /\ served < MaxReq
    /\ LET key == DerivedKey(r)
       IN  \E k \in SlotsFor(route.slots, key) :
             /\ store' = StoreAfter(op, k)
             /\ route' = [route EXCEPT !.pc = "done", !.request = r, !.key = key,
                             !.op = op, !.slot = k, !.slots[k] = key,
                             !.pre = store, !.at = now]
    /\ served' = served + 1
    /\ UNCHANGED <<now, kind, windowMs, last, run, proc, opts, req, seen, conn>>

NextKey ==
    \/ \E r \in KeyRequests, op \in AdapterOps : KeyedRequest(r, op)
    \/ Tick(windowMs)

SpecKey == InitKey /\ [][NextKey]_vars

\* The first entry of a forwarded-for list, as the claim names it: what
\* stands before the first comma, from its first to its last character that
\* is no space.
FirstForwardedEntry(s) ==
    LET stop == IF \E i \in 1 .. Len(s) : s[i] = ","
                THEN (CHOOSE i \in 1 .. Len(s) : s[i] = "," /\ \A j \in 1 .. i - 1 : s[j] # ",") - 1
                ELSE Len(s)
        solid == {i \in 1 .. stop : s[i] # " "}
    IN  IF solid = {} THEN <<>>
        ELSE SubSeq(s, CHOOSE i \in solid : \A j \in solid : i <= j,
                       CHOOSE i \in solid : \A j \in solid : j <= i)

\* The client address, as the claim names it.
ClientAddress(r) ==
    IF r.xff.present /\ r.xff.v # <<>> THEN FirstForwardedEntry(r.xff.v)
    ELSE IF r.real.present /\ r.real.v # <<>> THEN r.real.v
    ELSE IF r.client.present /\ r.client.v # <<>> THEN r.client.v
    ELSE <<"unknown">>

\* C40: the default key is made of the client address (first
\* x-forwarded-for entry, else x-real-ip, else x-client-ip, else "unknown")
\* and the request path and of nothing else; a configured key function
\* replaces it entirely; and an increment, decrement or reset on one key
\* leaves count and expiry of every other live key unchanged.
C40_KeyIsolation ==
    route.pc = "done"
        => /\ route.request.gen = "default"
                => route.key = ClientAddress(route.request) \o <<"-">> \o route.request.path
           /\ route.request.gen = "custom" => route.key = <<"m", route.request.method>>
           /\ \A k \in Keys \ {route.slot} :
                 Live(Held(kind, route.pre, route.at)[k], route.at)
                    => store[k] = route.pre[k]

\* C40 witness: a request from address a, taken from a list with spaces, for
\* path /x is counted a second time while the counter of another key is
\* live and stays as it was.
C40_OtherLiveKeyUntouched ==
    /\ route.pc = "done"
    /\ route.request.xff = Header(<<" ", "a", " ", ",", "b">>)
    /\ route.key = <<"a", "-", "/", "x">>
    /\ route.op = "inc"
    /\ \E k \in Keys \ {route.slot} :
          /\ route.slots[k] # <<>>
          /\ Live(route.pre[k], route.at)
          /\ store[k].present
          /\ store[k].count = 1

====
